---- MODULE Spec2Model ----
(***************************************************************************)
(* Model of the signal engine of carbyne-phinance (src/src/signals.rs):    *)
(* the indicator index, the nine crossing detectors, the confluence        *)
(* voting aggregator and the two orchestrating entry points.               *)
(*                                                                         *)
(* f64 values are modelled as exact fractions [n, d] with d >= 0; d = 0    *)
(* encodes the IEEE specials: 1/0 = +inf, -1/0 = -inf, 0/0 = NaN.          *)
(* Rounding is not modelled.                                               *)
(***************************************************************************)
EXTENDS Integers, Sequences, FiniteSets, TLC

VARIABLES
    config,              \* SignalEngine.config
    confluence_config,   \* SignalEngine.confluence_config
    indicators,          \* argument of generate_signals*: &[TechnicalIndicator]
    prices,              \* argument of generate_signals*: &[DailyPrice]
    op,                  \* the entry point invoked last ("none" before any)
    signals,             \* Vec<Signal> the last invocation returned
    confluence_signals,  \* Vec<ConfluenceSignal> the last invocation returned
    day,                 \* arguments of the last detect_confluence_signal call
    confluence           \* Option<ConfluenceSignal> it returned

\* the scheduler task (src/tauri-app/src-tauri/src/scheduler.rs) and the trade
\* queue it shares with the HTTP handlers (http_api.rs)
VARIABLES
    now_utc,             \* the wall clock Utc::now() reads
    last_execution_date, \* run_scheduler: Option<String>
    pc,                  \* where the scheduler task stands
    loop_today,          \* run_scheduler: today of the current iteration
    queued,              \* execute_queued_trades: the snapshot Vec<QueuedTrade>
    cursor,              \* execute_queued_trades: position of `for trade in &queued`
    trade_price,         \* execute_queued_trades: price of the current trade
    exec_result,         \* execute_queued_trades: exec_result of the current trade
    trade_queue,         \* database: the rows of the trade queue, by id
    portfolio_trades,    \* database: the paper / DC trades created
    calls,               \* history: the calls of execute_queued_trades
    cancelled,           \* history: ids cancelled while their row was 'queued'
    late_for,            \* history: per id, the date whose check preceded its adding
    checked              \* history: the ET dates with a window check that found no queued row

engine_vars == <<config, confluence_config, indicators, prices, op, signals,
                 confluence_signals, day, confluence>>

sched_vars == <<now_utc, last_execution_date, pc, loop_today, queued, cursor, trade_price,
                exec_result, trade_queue, portfolio_trades, calls, cancelled, late_for,
                checked>>

vars == <<engine_vars, sched_vars>>

----------------------------------------------------------------------------
(* f64 arithmetic on fractions *)

Abs(x) == IF x < 0 THEN -x ELSE x

Sgn(x) == IF x < 0 THEN -1 ELSE IF x > 0 THEN 1 ELSE 0

RECURSIVE Gcd(_, _)
Gcd(a, b) == IF b = 0 THEN a ELSE Gcd(b, a % b)

Norm(n, d) ==
    IF d = 0 THEN [n |-> Sgn(n), d |-> 0]
    ELSE LET g == Gcd(Abs(n), d) IN [n |-> n \div g, d |-> d \div g]

F(i) == [n |-> i, d |-> 1]

Frac(n, d) == Norm(n, d)

NaN == [n |-> 0, d |-> 0]

IsNaN(x) == x.d = 0 /\ x.n = 0

FAdd(a, b) ==
    IF a.d = 0 /\ b.d = 0
    THEN (IF a.n = b.n THEN a ELSE NaN)
    ELSE Norm(a.n * b.d + b.n * a.d, a.d * b.d)

FNeg(a) == [n |-> -a.n, d |-> a.d]

FSub(a, b) == FAdd(a, FNeg(b))

FMul(a, b) == Norm(a.n * b.n, a.d * b.d)

FDiv(a, b) == Norm(Sgn(b.n) * a.n * b.d, a.d * Abs(b.n))

FAbs(a) == [n |-> Abs(a.n), d |-> a.d]

FLt(a, b) ==
    /\ ~IsNaN(a)
    /\ ~IsNaN(b)
    /\ IF a.d = 0 /\ b.d = 0 THEN a.n < b.n ELSE a.n * b.d < b.n * a.d

FGt(a, b) == FLt(b, a)

FLe(a, b) == ~IsNaN(a) /\ ~IsNaN(b) /\ ~FLt(b, a)

FGe(a, b) == FLe(b, a)

\* f64::min and f64::max: if one argument is NaN the other is returned
FMin(a, b) == IF IsNaN(a) THEN b ELSE IF IsNaN(b) THEN a ELSE IF FLt(b, a) THEN b ELSE a

FMax(a, b) == IF IsNaN(a) THEN b ELSE IF IsNaN(b) THEN a ELSE IF FLt(a, b) THEN b ELSE a

----------------------------------------------------------------------------
(* Configuration *)

SignalConfigDefault ==
    [rsi_overbought |-> F(70), rsi_oversold |-> F(30),
     adx_strong_trend |-> F(25), adx_weak_trend |-> F(20),
     stoch_overbought |-> F(80), stoch_oversold |-> F(20),
     willr_overbought |-> F(-20), willr_oversold |-> F(-80),
     cci_overbought |-> F(100), cci_oversold |-> F(-100),
     mfi_overbought |-> F(80), mfi_oversold |-> F(20)]

\* ConfluenceConfig lives in models.rs; its threshold defaults are the ones
\* the tests of signals.rs rely on (30/70, 20/80, -100/100, ADX 25, 3 votes).
ConfluenceConfigDefault ==
    [rsi_oversold |-> F(30), rsi_overbought |-> F(70),
     stoch_oversold |-> F(20), stoch_overbought |-> F(80),
     cci_oversold |-> F(-100), cci_overbought |-> F(100),
     adx_strong_trend |-> F(25),
     min_agreeing_indicators |-> 3]

Symbol == "AAPL"

\* Option<T>: None is the empty sequence, Some(x) is <<x>>
None == <<>>

Some(x) == <<x>>

IsSome(o) == Len(o) = 1

\* HashMap::get on a name -> value map
Get(m, name) == IF name \in DOMAIN m THEN Some(m[name]) ELSE None

\* prev.and_then(|p| p.get(name).copied())
PrevGet(prev, name) == IF IsSome(prev) THEN Get(prev[1], name) ELSE None

EmptyMap == [x \in {} |-> 0]

\* HashMap::insert: the new value replaces an existing one
Insert(m, k, v) == [x \in DOMAIN m \cup {k} |-> IF x = k THEN v ELSE m[x]]

\* Signal stamped by the engine: the date as id, a creation time, acknowledged
Signal_stamped(signal_type, direction, strength, price, triggered_by, trigger_value, date) ==
    [id |-> date, symbol |-> Symbol, signal_type |-> signal_type,
     direction |-> direction, strength |-> strength, price_at_signal |-> price,
     triggered_by |-> triggered_by, trigger_value |-> trigger_value,
     timestamp |-> date, created_at |-> "now", acknowledged |-> TRUE]

Signal(signal_type, direction, strength, price, triggered_by, trigger_value, date) ==
    [id |-> 0, symbol |-> Symbol, signal_type |-> signal_type,
     direction |-> direction, strength |-> strength, price_at_signal |-> price,
     triggered_by |-> triggered_by, trigger_value |-> trigger_value,
     timestamp |-> date, created_at |-> "", acknowledged |-> FALSE]

----------------------------------------------------------------------------
(* The nine detectors.  today is a name -> value map, prev an Option of one. *)

\* detect_rsi_signal as a level test: the previous day's value is not consulted
detect_rsi_signal_level(date, price, today, prev) ==
    LET rsi == Get(today, "RSI_14")
    IN  IF ~IsSome(rsi) THEN None
        ELSE IF FGt(rsi[1], config.rsi_overbought)
        THEN Some(Signal("RsiOverbought", "Bearish",
                  FMin(FDiv(FSub(rsi[1], config.rsi_overbought), F(30)), F(1)),
                  price, "RSI_14", rsi[1], date))
        ELSE IF FLt(rsi[1], config.rsi_oversold)
        THEN Some(Signal("RsiOversold", "Bullish",
                  FMin(FDiv(FSub(config.rsi_oversold, rsi[1]), F(30)), F(1)),
                  price, "RSI_14", rsi[1], date))
        ELSE None

\* detect_rsi_signal with map_or(false, ..): a missing previous value blocks the signal
detect_rsi_signal_no_cold_start(date, price, today, prev) ==
    LET rsi == Get(today, "RSI_14")
        prev_rsi == PrevGet(prev, "RSI_14")
    IN  IF ~IsSome(rsi) THEN None
        ELSE IF FGt(rsi[1], config.rsi_overbought)
        THEN IF (IF IsSome(prev_rsi) THEN FLe(prev_rsi[1], config.rsi_overbought) ELSE FALSE)
             THEN Some(Signal("RsiOverbought", "Bearish",
                       FMin(FDiv(FSub(rsi[1], config.rsi_overbought), F(30)), F(1)),
                       price, "RSI_14", rsi[1], date))
             ELSE None
        ELSE IF FLt(rsi[1], config.rsi_oversold)
        THEN IF (IF IsSome(prev_rsi) THEN FGe(prev_rsi[1], config.rsi_oversold) ELSE FALSE)
             THEN Some(Signal("RsiOversold", "Bullish",
                       FMin(FDiv(FSub(config.rsi_oversold, rsi[1]), F(30)), F(1)),
                       price, "RSI_14", rsi[1], date))
             ELSE None
        ELSE None

\* detect_rsi_signal with < and > on the previous value: a previous value
\* exactly on the threshold counts as already beyond it
detect_rsi_signal_strict_prev(date, price, today, prev) ==
    LET rsi == Get(today, "RSI_14")
        prev_rsi == PrevGet(prev, "RSI_14")
    IN  IF ~IsSome(rsi) THEN None
        ELSE IF FGt(rsi[1], config.rsi_overbought)
        THEN IF (IF IsSome(prev_rsi) THEN FLt(prev_rsi[1], config.rsi_overbought) ELSE TRUE)
             THEN Some(Signal("RsiOverbought", "Bearish",
                       FMin(FDiv(FSub(rsi[1], config.rsi_overbought), F(30)), F(1)),
                       price, "RSI_14", rsi[1], date))
             ELSE None
        ELSE IF FLt(rsi[1], config.rsi_oversold)
        THEN IF (IF IsSome(prev_rsi) THEN FGt(prev_rsi[1], config.rsi_oversold) ELSE TRUE)
             THEN Some(Signal("RsiOversold", "Bullish",
                       FMin(FDiv(FSub(config.rsi_oversold, rsi[1]), F(30)), F(1)),
                       price, "RSI_14", rsi[1], date))
             ELSE None
        ELSE None

detect_rsi_signal(date, price, today, prev) ==
    LET rsi == Get(today, "RSI_14")
        prev_rsi == PrevGet(prev, "RSI_14")
    IN  IF ~IsSome(rsi) THEN None
        ELSE IF FGt(rsi[1], config.rsi_overbought)
        THEN IF (IF IsSome(prev_rsi) THEN FLe(prev_rsi[1], config.rsi_overbought) ELSE TRUE)
             THEN Some(Signal("RsiOverbought", "Bearish",
                       FMin(FDiv(FSub(rsi[1], config.rsi_overbought), F(30)), F(1)),
                       price, "RSI_14", rsi[1], date))
             ELSE None
        ELSE IF FLt(rsi[1], config.rsi_oversold)
        THEN IF (IF IsSome(prev_rsi) THEN FGe(prev_rsi[1], config.rsi_oversold) ELSE TRUE)
             THEN Some(Signal("RsiOversold", "Bullish",
                       FMin(FDiv(FSub(config.rsi_oversold, rsi[1]), F(30)), F(1)),
                       price, "RSI_14", rsi[1], date))
             ELSE None
        ELSE None

\* detect_macd_signal with unwrap_or on the previous values: a missing previous
\* pair is read as "equal", so a first date can already show a cross
detect_macd_signal_cold_start(date, price, today, prev) ==
    LET macd == Get(today, "MACD_12_26")
        signal == Get(today, "MACD_SIGNAL_9")
        prev_macd == PrevGet(prev, "MACD_12_26")
        prev_signal == PrevGet(prev, "MACD_SIGNAL_9")
        missing == ~IsSome(prev_macd) \/ ~IsSome(prev_signal)
    IN  IF ~IsSome(macd) \/ ~IsSome(signal) THEN None
        ELSE IF (missing \/ FLe(prev_macd[1], prev_signal[1])) /\ FGt(macd[1], signal[1])
        THEN Some(Signal("MacdBullishCross", "Bullish",
                  FMin(FMul(FDiv(FAbs(FSub(macd[1], signal[1])), FMax(price, F(1))), F(100)), F(1)),
                  price, "MACD", macd[1], date))
        ELSE IF (missing \/ FGe(prev_macd[1], prev_signal[1])) /\ FLt(macd[1], signal[1])
        THEN Some(Signal("MacdBearishCross", "Bearish",
                  FMin(FMul(FDiv(FAbs(FSub(macd[1], signal[1])), FMax(price, F(1))), F(100)), F(1)),
                  price, "MACD", macd[1], date))
        ELSE None

detect_macd_signal(date, price, today, prev) ==
    LET macd == Get(today, "MACD_12_26")
        signal == Get(today, "MACD_SIGNAL_9")
        prev_macd == PrevGet(prev, "MACD_12_26")
        prev_signal == PrevGet(prev, "MACD_SIGNAL_9")
    IN  IF ~IsSome(macd) \/ ~IsSome(signal) \/ ~IsSome(prev_macd) \/ ~IsSome(prev_signal)
        THEN None
        ELSE IF FLe(prev_macd[1], prev_signal[1]) /\ FGt(macd[1], signal[1])
        THEN Some(Signal("MacdBullishCross", "Bullish",
                  FMin(FMul(FDiv(FAbs(FSub(macd[1], signal[1])), FMax(price, F(1))), F(100)), F(1)),
                  price, "MACD", macd[1], date))
        ELSE IF FGe(prev_macd[1], prev_signal[1]) /\ FLt(macd[1], signal[1])
        THEN Some(Signal("MacdBearishCross", "Bearish",
                  FMin(FMul(FDiv(FAbs(FSub(macd[1], signal[1])), FMax(price, F(1))), F(100)), F(1)),
                  price, "MACD", macd[1], date))
        ELSE None

\* detect_bollinger_signal with >= and <=: touching a band already counts
detect_bollinger_signal_touch(date, price, today) ==
    LET upper == Get(today, "BB_UPPER_20")
        lower == Get(today, "BB_LOWER_20")
        middle == Get(today, "BB_MIDDLE_20")
    IN  IF ~IsSome(upper) \/ ~IsSome(lower) \/ ~IsSome(middle) THEN None
        ELSE IF FGe(price, upper[1])
        THEN Some(Signal("BollingerUpperBreak", "Bearish",
                  FMin(FDiv(FSub(price, upper[1]),
                            FMax(FSub(upper[1], middle[1]), Frac(1, 100))), F(1)),
                  price, "BB_UPPER_20", upper[1], date))
        ELSE IF FLe(price, lower[1])
        THEN Some(Signal("BollingerLowerBreak", "Bullish",
                  FMin(FDiv(FSub(lower[1], price),
                            FMax(FSub(middle[1], lower[1]), Frac(1, 100))), F(1)),
                  price, "BB_LOWER_20", lower[1], date))
        ELSE None

detect_bollinger_signal(date, price, today) ==
    LET upper == Get(today, "BB_UPPER_20")
        lower == Get(today, "BB_LOWER_20")
        middle == Get(today, "BB_MIDDLE_20")
    IN  IF ~IsSome(upper) \/ ~IsSome(lower) \/ ~IsSome(middle) THEN None
        ELSE IF FGt(price, upper[1])
        THEN Some(Signal("BollingerUpperBreak", "Bearish",
                  FMin(FDiv(FSub(price, upper[1]),
                            FMax(FSub(upper[1], middle[1]), Frac(1, 100))), F(1)),
                  price, "BB_UPPER_20", upper[1], date))
        ELSE IF FLt(price, lower[1])
        THEN Some(Signal("BollingerLowerBreak", "Bullish",
                  FMin(FDiv(FSub(lower[1], price),
                            FMax(FSub(middle[1], lower[1]), Frac(1, 100))), F(1)),
                  price, "BB_LOWER_20", lower[1], date))
        ELSE None

detect_ma_crossover_signal(date, price, today, prev) ==
    LET sma_fast == Get(today, "SMA_20")
        sma_slow == Get(today, "SMA_50")
        prev_sma_fast == PrevGet(prev, "SMA_20")
        prev_sma_slow == PrevGet(prev, "SMA_50")
    IN  IF ~IsSome(sma_fast) \/ ~IsSome(sma_slow) \/ ~IsSome(prev_sma_fast) \/ ~IsSome(prev_sma_slow)
        THEN None
        ELSE IF FLe(prev_sma_fast[1], prev_sma_slow[1]) /\ FGt(sma_fast[1], sma_slow[1])
        THEN Some(Signal("MaCrossoverBullish", "Bullish",
                  FMin(FMul(FDiv(FSub(sma_fast[1], sma_slow[1]), sma_slow[1]), F(100)), F(1)),
                  price, "SMA_20/50", sma_fast[1], date))
        ELSE IF FGe(prev_sma_fast[1], prev_sma_slow[1]) /\ FLt(sma_fast[1], sma_slow[1])
        THEN Some(Signal("MaCrossoverBearish", "Bearish",
                  FMin(FMul(FDiv(FSub(sma_slow[1], sma_fast[1]), sma_slow[1]), F(100)), F(1)),
                  price, "SMA_20/50", sma_fast[1], date))
        ELSE None

\* detect_adx_signal taking sides: a strong trend is Bullish, a weak one Bearish
detect_adx_signal_directional(date, price, today, prev) ==
    LET adx == Get(today, "ADX_14")
        prev_adx == PrevGet(prev, "ADX_14")
    IN  IF ~IsSome(adx) THEN None
        ELSE IF FGt(adx[1], config.adx_strong_trend)
        THEN IF (IF IsSome(prev_adx) THEN FLe(prev_adx[1], config.adx_strong_trend) ELSE TRUE)
             THEN Some(Signal("AdxTrendStrong", "Bullish",
                       FMin(FDiv(FSub(adx[1], config.adx_strong_trend), F(25)), F(1)),
                       price, "ADX_14", adx[1], date))
             ELSE None
        ELSE IF FLt(adx[1], config.adx_weak_trend)
        THEN IF (IF IsSome(prev_adx) THEN FGe(prev_adx[1], config.adx_weak_trend) ELSE TRUE)
             THEN Some(Signal("AdxTrendWeak", "Bearish",
                       FMin(FDiv(FSub(config.adx_weak_trend, adx[1]), F(20)), F(1)),
                       price, "ADX_14", adx[1], date))
             ELSE None
        ELSE None

detect_adx_signal(date, price, today, prev) ==
    LET adx == Get(today, "ADX_14")
        prev_adx == PrevGet(prev, "ADX_14")
    IN  IF ~IsSome(adx) THEN None
        ELSE IF FGt(adx[1], config.adx_strong_trend)
        THEN IF (IF IsSome(prev_adx) THEN FLe(prev_adx[1], config.adx_strong_trend) ELSE TRUE)
             THEN Some(Signal("AdxTrendStrong", "Neutral",
                       FMin(FDiv(FSub(adx[1], config.adx_strong_trend), F(25)), F(1)),
                       price, "ADX_14", adx[1], date))
             ELSE None
        ELSE IF FLt(adx[1], config.adx_weak_trend)
        THEN IF (IF IsSome(prev_adx) THEN FGe(prev_adx[1], config.adx_weak_trend) ELSE TRUE)
             THEN Some(Signal("AdxTrendWeak", "Neutral",
                       FMin(FDiv(FSub(config.adx_weak_trend, adx[1]), F(20)), F(1)),
                       price, "ADX_14", adx[1], date))
             ELSE None
        ELSE None

\* detect_stochastic_signal without the band conditions: every %K/%D cross counts
detect_stochastic_signal_any_cross(date, price, today, prev) ==
    LET k == Get(today, "STOCH_K_14")
        d == Get(today, "STOCH_D_3")
        prev_k == PrevGet(prev, "STOCH_K_14")
        prev_d == PrevGet(prev, "STOCH_D_3")
    IN  IF ~IsSome(k) \/ ~IsSome(d) \/ ~IsSome(prev_k) \/ ~IsSome(prev_d)
        THEN None
        ELSE IF FLe(prev_k[1], prev_d[1]) /\ FGt(k[1], d[1])
        THEN Some(Signal("StochBullishCross", "Bullish",
                  FMin(FDiv(FAbs(FSub(d[1], k[1])), F(20)), F(1)),
                  price, "STOCH", k[1], date))
        ELSE IF FGe(prev_k[1], prev_d[1]) /\ FLt(k[1], d[1])
        THEN Some(Signal("StochBearishCross", "Bearish",
                  FMin(FDiv(FAbs(FSub(k[1], d[1])), F(20)), F(1)),
                  price, "STOCH", k[1], date))
        ELSE None

detect_stochastic_signal(date, price, today, prev) ==
    LET k == Get(today, "STOCH_K_14")
        d == Get(today, "STOCH_D_3")
        prev_k == PrevGet(prev, "STOCH_K_14")
        prev_d == PrevGet(prev, "STOCH_D_3")
    IN  IF ~IsSome(k) \/ ~IsSome(d) \/ ~IsSome(prev_k) \/ ~IsSome(prev_d)
        THEN None
        ELSE IF FLe(prev_k[1], prev_d[1]) /\ FGt(k[1], d[1])
             /\ FLt(k[1], FAdd(config.stoch_oversold, F(20)))
        THEN Some(Signal("StochBullishCross", "Bullish",
                  FMin(FDiv(FAbs(FSub(d[1], k[1])), F(20)), F(1)),
                  price, "STOCH", k[1], date))
        ELSE IF FGe(prev_k[1], prev_d[1]) /\ FLt(k[1], d[1])
             /\ FGt(k[1], FSub(config.stoch_overbought, F(20)))
        THEN Some(Signal("StochBearishCross", "Bearish",
                  FMin(FDiv(FAbs(FSub(k[1], d[1])), F(20)), F(1)),
                  price, "STOCH", k[1], date))
        ELSE None

detect_willr_signal(date, price, today, prev) ==
    LET willr == Get(today, "WILLR_14")
        prev_willr == PrevGet(prev, "WILLR_14")
    IN  IF ~IsSome(willr) THEN None
        ELSE IF FGt(willr[1], config.willr_overbought)
        THEN IF (IF IsSome(prev_willr) THEN FLe(prev_willr[1], config.willr_overbought) ELSE TRUE)
             THEN Some(Signal("WillrOverbought", "Bearish",
                       FMin(FDiv(FSub(willr[1], config.willr_overbought), F(20)), F(1)),
                       price, "WILLR_14", willr[1], date))
             ELSE None
        ELSE IF FLt(willr[1], config.willr_oversold)
        THEN IF (IF IsSome(prev_willr) THEN FGe(prev_willr[1], config.willr_oversold) ELSE TRUE)
             THEN Some(Signal("WillrOversold", "Bullish",
                       FMin(FDiv(FSub(config.willr_oversold, willr[1]), F(20)), F(1)),
                       price, "WILLR_14", willr[1], date))
             ELSE None
        ELSE None

detect_cci_signal(date, price, today, prev) ==
    LET cci == Get(today, "CCI_20")
        prev_cci == PrevGet(prev, "CCI_20")
    IN  IF ~IsSome(cci) THEN None
        ELSE IF FGt(cci[1], config.cci_overbought)
        THEN IF (IF IsSome(prev_cci) THEN FLe(prev_cci[1], config.cci_overbought) ELSE TRUE)
             THEN Some(Signal("CciOverbought", "Bearish",
                       FMin(FDiv(FSub(cci[1], config.cci_overbought), F(100)), F(1)),
                       price, "CCI_20", cci[1], date))
             ELSE None
        ELSE IF FLt(cci[1], config.cci_oversold)
        THEN IF (IF IsSome(prev_cci) THEN FGe(prev_cci[1], config.cci_oversold) ELSE TRUE)
             THEN Some(Signal("CciOversold", "Bullish",
                       FMin(FDiv(FSub(config.cci_oversold, cci[1]), F(100)), F(1)),
                       price, "CCI_20", cci[1], date))
             ELSE None
        ELSE None

detect_mfi_signal(date, price, today, prev) ==
    LET mfi == Get(today, "MFI_14")
        prev_mfi == PrevGet(prev, "MFI_14")
    IN  IF ~IsSome(mfi) THEN None
        ELSE IF FGt(mfi[1], config.mfi_overbought)
        THEN IF (IF IsSome(prev_mfi) THEN FLe(prev_mfi[1], config.mfi_overbought) ELSE TRUE)
             THEN Some(Signal("MfiOverbought", "Bearish",
                       FMin(FDiv(FSub(mfi[1], config.mfi_overbought), F(20)), F(1)),
                       price, "MFI_14", mfi[1], date))
             ELSE None
        ELSE IF FLt(mfi[1], config.mfi_oversold)
        THEN IF (IF IsSome(prev_mfi) THEN FGe(prev_mfi[1], config.mfi_oversold) ELSE TRUE)
             THEN Some(Signal("MfiOversold", "Bullish",
                       FMin(FDiv(FSub(config.mfi_oversold, mfi[1]), F(20)), F(1)),
                       price, "MFI_14", mfi[1], date))
             ELSE None
        ELSE None

----------------------------------------------------------------------------
(* Index building and generate_signals *)

\* build_indicator_map with entry().or_insert(): the first value of a pair is kept
RECURSIVE build_indicator_map_first_wins(_, _)
build_indicator_map_first_wins(inds, k) ==
    IF k = 0 THEN EmptyMap
    ELSE LET map == build_indicator_map_first_wins(inds, k - 1)
             ind == inds[k]
             entry == IF ind.date \in DOMAIN map THEN map[ind.date] ELSE EmptyMap
         IN  IF ind.indicator_name \in DOMAIN entry THEN map
             ELSE Insert(map, ind.date, Insert(entry, ind.indicator_name, ind.value))

\* the loop of build_indicator_map over the first k records
RECURSIVE build_indicator_map_loop(_, _)
build_indicator_map_loop(inds, k) ==
    IF k = 0 THEN EmptyMap
    ELSE LET map == build_indicator_map_loop(inds, k - 1)
             ind == inds[k]
             entry == IF ind.date \in DOMAIN map THEN map[ind.date] ELSE EmptyMap
         IN  Insert(map, ind.date, Insert(entry, ind.indicator_name, ind.value))

build_indicator_map(inds) == build_indicator_map_loop(inds, Len(inds))

\* price_map keeping the first bar of a date
RECURSIVE price_map_loop_first_wins(_, _)
price_map_loop_first_wins(ps, k) ==
    IF k = 0 THEN EmptyMap
    ELSE LET map == price_map_loop_first_wins(ps, k - 1)
         IN  IF ps[k].date \in DOMAIN map THEN map ELSE Insert(map, ps[k].date, ps[k])

\* price_map of generate_signals: date -> &DailyPrice, a later bar replaces an earlier one
RECURSIVE price_map_loop(_, _)
price_map_loop(ps, k) ==
    IF k = 0 THEN EmptyMap
    ELSE Insert(price_map_loop(ps, k - 1), ps[k].date, ps[k])

\* dates.sort() on the keys of the index
RECURSIVE SortedDates(_)
SortedDates(S) ==
    IF S = {} THEN <<>>
    ELSE LET m == CHOOSE x \in S : \A y \in S : x <= y
         IN  <<m>> \o SortedDates(S \ {m})

\* indicators_prev looked up by calendar: the entry of the day before dates[i]
indicators_prev_calendar(indicator_map, dates, i) ==
    Get(indicator_map, dates[i] - 1)

\* indicators_prev of the loop body: the entry of dates[i - 1], None for i = 1
indicators_prev(indicator_map, dates, i) ==
    IF i > 1 THEN Get(indicator_map, dates[i - 1]) ELSE None

\* price of the loop body: the close of the day's bar, 0.0 without one
price_on(price_map, date) ==
    IF date \in DOMAIN price_map THEN price_map[date].close ELSE F(0)

\* the loop body with the MFI detector moved to the front
detect_all_mfi_first(date, price, today, prev) ==
    detect_mfi_signal(date, price, today, prev)
    \o detect_rsi_signal(date, price, today, prev)
    \o detect_macd_signal(date, price, today, prev)
    \o detect_bollinger_signal(date, price, today)
    \o detect_ma_crossover_signal(date, price, today, prev)
    \o detect_adx_signal(date, price, today, prev)
    \o detect_stochastic_signal(date, price, today, prev)
    \o detect_willr_signal(date, price, today, prev)
    \o detect_cci_signal(date, price, today, prev)

\* one iteration of the loop of generate_signals: the nine detectors in order
detect_all(date, price, today, prev) ==
    detect_rsi_signal(date, price, today, prev)
    \o detect_macd_signal(date, price, today, prev)
    \o detect_bollinger_signal(date, price, today)
    \o detect_ma_crossover_signal(date, price, today, prev)
    \o detect_adx_signal(date, price, today, prev)
    \o detect_stochastic_signal(date, price, today, prev)
    \o detect_willr_signal(date, price, today, prev)
    \o detect_cci_signal(date, price, today, prev)
    \o detect_mfi_signal(date, price, today, prev)

RECURSIVE generate_signals_loop(_, _, _, _)
generate_signals_loop(indicator_map, price_map, dates, i) ==
    IF i = 0 THEN <<>>
    ELSE generate_signals_loop(indicator_map, price_map, dates, i - 1)
         \o detect_all(dates[i], price_on(price_map, dates[i]),
                       indicator_map[dates[i]],
                       indicators_prev(indicator_map, dates, i))

\* generate_signals without the test of the price list
generate_signals_unchecked_prices(inds, ps) ==
    IF Len(inds) = 0 THEN <<>>
    ELSE LET indicator_map == build_indicator_map(inds)
             price_map == price_map_loop(ps, Len(ps))
             dates == SortedDates(DOMAIN indicator_map)
         IN  generate_signals_loop(indicator_map, price_map, dates, Len(dates))

generate_signals(inds, ps) ==
    IF Len(ps) = 0 \/ Len(inds) = 0 THEN <<>>
    ELSE LET indicator_map == build_indicator_map(inds)
             price_map == price_map_loop(ps, Len(ps))
             dates == SortedDates(DOMAIN indicator_map)
         IN  generate_signals_loop(indicator_map, price_map, dates, Len(dates))


----------------------------------------------------------------------------
(* Confluence voting: detect_confluence_signal *)

IndicatorVote(indicator_name, direction, strength, value) ==
    [indicator_name |-> indicator_name, direction |-> direction,
     strength |-> strength, value |-> value]

\* the five accumulators declared at the top of detect_confluence_signal
VotesInit ==
    [votes |-> <<>>, bullish_count |-> 0, bearish_count |-> 0,
     bullish_strength_sum |-> F(0), bearish_strength_sum |-> F(0)]

\* AddBullish with a pasted line left in: the bearish counter is raised as well
AddBullish_both_counts(acc, name, strength, value) ==
    [acc EXCEPT !.votes = Append(@, IndicatorVote(name, "Bullish", strength, value)),
                !.bullish_count = @ + 1,
                !.bearish_count = @ + 1,
                !.bullish_strength_sum = FAdd(@, strength)]

\* votes.push(..Bullish..); bullish_count += 1; bullish_strength_sum += strength
AddBullish(acc, name, strength, value) ==
    [acc EXCEPT !.votes = Append(@, IndicatorVote(name, "Bullish", strength, value)),
                !.bullish_count = @ + 1,
                !.bullish_strength_sum = FAdd(@, strength)]

\* votes.push(..Bearish..); bearish_count += 1; bearish_strength_sum += strength
AddBearish(acc, name, strength, value) ==
    [acc EXCEPT !.votes = Append(@, IndicatorVote(name, "Bearish", strength, value)),
                !.bearish_count = @ + 1,
                !.bearish_strength_sum = FAdd(@, strength)]

rsi_vote(acc, inds) ==
    LET rsi == Get(inds, "RSI_14")
    IN  IF ~IsSome(rsi) THEN acc
        ELSE IF FLt(rsi[1], confluence_config.rsi_oversold)
        THEN AddBullish(acc, "RSI_14", FMin(FDiv(FSub(confluence_config.rsi_oversold, rsi[1]), F(30)), F(1)), rsi[1])
        ELSE IF FGt(rsi[1], confluence_config.rsi_overbought)
        THEN AddBearish(acc, "RSI_14", FMin(FDiv(FSub(rsi[1], confluence_config.rsi_overbought), F(30)), F(1)), rsi[1])
        ELSE acc

macd_vote(acc, price, inds) ==
    LET macd == Get(inds, "MACD_12_26")
        signal == Get(inds, "MACD_SIGNAL_9")
    IN  IF ~IsSome(macd) \/ ~IsSome(signal) THEN acc
        ELSE LET diff == FSub(macd[1], signal[1])
                 strength == FMin(FMul(FDiv(FAbs(diff), FMax(price, F(1))), F(100)), F(1))
             IN  IF FGt(diff, F(0)) THEN AddBullish(acc, "MACD", strength, macd[1])
                 ELSE IF FLt(diff, F(0)) THEN AddBearish(acc, "MACD", strength, macd[1])
                 ELSE acc

\* bollinger_vote taking the middle band from BB_MIDDLE_20 when it is recorded
bollinger_vote_recorded_middle(acc, price, inds) ==
    LET upper == Get(inds, "BB_UPPER_20")
        lower == Get(inds, "BB_LOWER_20")
        recorded == Get(inds, "BB_MIDDLE_20")
    IN  IF ~IsSome(upper) \/ ~IsSome(lower) THEN acc
        ELSE LET middle == IF IsSome(recorded) THEN recorded[1]
                           ELSE FDiv(FAdd(upper[1], lower[1]), F(2))
             IN  IF FLt(price, lower[1])
                 THEN AddBullish(acc, "BB_LOWER",
                          FMin(FDiv(FSub(lower[1], price),
                                    FMax(FSub(middle, lower[1]), Frac(1, 100))), F(1)),
                          price)
                 ELSE IF FGt(price, upper[1])
                 THEN AddBearish(acc, "BB_UPPER",
                          FMin(FDiv(FSub(price, upper[1]),
                                    FMax(FSub(upper[1], middle), Frac(1, 100))), F(1)),
                          price)
                 ELSE acc

bollinger_vote(acc, price, inds) ==
    LET upper == Get(inds, "BB_UPPER_20")
        lower == Get(inds, "BB_LOWER_20")
    IN  IF ~IsSome(upper) \/ ~IsSome(lower) THEN acc
        ELSE LET middle == FDiv(FAdd(upper[1], lower[1]), F(2))
             IN  IF FLt(price, lower[1])
                 THEN AddBullish(acc, "BB_LOWER",
                          FMin(FDiv(FSub(lower[1], price),
                                    FMax(FSub(middle, lower[1]), Frac(1, 100))), F(1)),
                          price)
                 ELSE IF FGt(price, upper[1])
                 THEN AddBearish(acc, "BB_UPPER",
                          FMin(FDiv(FSub(price, upper[1]),
                                    FMax(FSub(upper[1], middle), Frac(1, 100))), F(1)),
                          price)
                 ELSE acc

stoch_vote(acc, inds) ==
    LET stoch_k == Get(inds, "STOCH_K_14")
    IN  IF ~IsSome(stoch_k) THEN acc
        ELSE IF FLt(stoch_k[1], confluence_config.stoch_oversold)
        THEN AddBullish(acc, "STOCH_K", FMin(FDiv(FSub(confluence_config.stoch_oversold, stoch_k[1]), F(20)), F(1)), stoch_k[1])
        ELSE IF FGt(stoch_k[1], confluence_config.stoch_overbought)
        THEN AddBearish(acc, "STOCH_K", FMin(FDiv(FSub(stoch_k[1], confluence_config.stoch_overbought), F(20)), F(1)), stoch_k[1])
        ELSE acc

cci_vote(acc, inds) ==
    LET cci == Get(inds, "CCI_20")
    IN  IF ~IsSome(cci) THEN acc
        ELSE IF FLt(cci[1], confluence_config.cci_oversold)
        THEN AddBullish(acc, "CCI_20", FMin(FAbs(FDiv(FSub(confluence_config.cci_oversold, cci[1]), F(100))), F(1)), cci[1])
        ELSE IF FGt(cci[1], confluence_config.cci_overbought)
        THEN AddBearish(acc, "CCI_20", FMin(FAbs(FDiv(FSub(cci[1], confluence_config.cci_overbought), F(100))), F(1)), cci[1])
        ELSE acc

\* collect_votes with the CCI block moved in front of the RSI block
collect_votes_cci_first(price, inds) ==
    stoch_vote(bollinger_vote(macd_vote(rsi_vote(cci_vote(VotesInit, inds), inds),
        price, inds), price, inds), inds)

\* the votes after the five sources, in the order of the code
collect_votes(price, inds) ==
    cci_vote(stoch_vote(bollinger_vote(macd_vote(rsi_vote(VotesInit, inds),
        price, inds), price, inds), inds), inds)

\* adx_confidence_of with >= for >: an ADX exactly at the threshold counts as strong
adx_confidence_of_inclusive(inds) ==
    LET adx == Get(inds, "ADX_14")
    IN  IF IsSome(adx) /\ FGe(adx[1], confluence_config.adx_strong_trend)
        THEN adx ELSE None

\* indicators.get("ADX_14").copied().filter(|adx| adx > adx_strong_trend)
adx_confidence_of(inds) ==
    LET adx == Get(inds, "ADX_14")
    IN  IF IsSome(adx) /\ FGt(adx[1], confluence_config.adx_strong_trend)
        THEN adx ELSE None

\* decide with > for >=: a side that exactly meets the minimum is not enough
decide_strict(acc) ==
    LET min_required == confluence_config.min_agreeing_indicators
    IN  IF acc.bullish_count > min_required
        THEN Some(<<"Bullish", FDiv(acc.bullish_strength_sum, F(acc.bullish_count))>>)
        ELSE IF acc.bearish_count > min_required
        THEN Some(<<"Bearish", FDiv(acc.bearish_strength_sum, F(acc.bearish_count))>>)
        ELSE None

\* decide with the two tests swapped: the bearish side is tried first
decide_bearish_first(acc) ==
    LET min_required == confluence_config.min_agreeing_indicators
    IN  IF acc.bearish_count >= min_required
        THEN Some(<<"Bearish", FDiv(acc.bearish_strength_sum, F(acc.bearish_count))>>)
        ELSE IF acc.bullish_count >= min_required
        THEN Some(<<"Bullish", FDiv(acc.bullish_strength_sum, F(acc.bullish_count))>>)
        ELSE None

\* (direction, base_strength), or None for "not enough agreement"
decide(acc) ==
    LET min_required == confluence_config.min_agreeing_indicators
    IN  IF acc.bullish_count >= min_required
        THEN Some(<<"Bullish", FDiv(acc.bullish_strength_sum, F(acc.bullish_count))>>)
        ELSE IF acc.bearish_count >= min_required
        THEN Some(<<"Bearish", FDiv(acc.bearish_strength_sum, F(acc.bearish_count))>>)
        ELSE None

\* final_strength_of dividing by the configured strong-trend threshold
final_strength_of_threshold_divisor(base_strength, adx_confidence) ==
    IF IsSome(adx_confidence)
    THEN FMin(FMul(base_strength,
                   FMin(FDiv(adx_confidence[1], confluence_config.adx_strong_trend), F(2))),
              F(1))
    ELSE base_strength

\* the ADX confidence multiplier, capped at 2x, result capped at 1
final_strength_of(base_strength, adx_confidence) ==
    IF IsSome(adx_confidence)
    THEN FMin(FMul(base_strength, FMin(FDiv(adx_confidence[1], F(25)), F(2))), F(1))
    ELSE base_strength

detect_confluence_signal(date, price, inds) ==
    LET acc == collect_votes(price, inds)
        adx_confidence == adx_confidence_of(inds)
        decision == decide(acc)
    IN  IF ~IsSome(decision) THEN None
        ELSE Some([id |-> 0, symbol |-> Symbol, date |-> date,
                   direction |-> decision[1][1],
                   strength |-> final_strength_of(decision[1][2], adx_confidence),
                   contributing_indicators |-> acc.votes,
                   bullish_count |-> acc.bullish_count,
                   bearish_count |-> acc.bearish_count,
                   adx_confidence |-> adx_confidence,
                   price_at_signal |-> price, created_at |-> ""])

\* day_confluence without the price lookup: every day is evaluated at 0.0
day_confluence_without_price(indicator_map, price_map) ==
    [date \in DOMAIN indicator_map |->
        detect_confluence_signal(date, F(0), indicator_map[date])]

\* the body of the loop of generate_signals_with_confluence for every key of
\* the index: the day's confluence evaluation at the day's close (0.0 without a bar)
day_confluence(indicator_map, price_map) ==
    [date \in DOMAIN indicator_map |->
        detect_confluence_signal(date, price_on(price_map, date), indicator_map[date])]

\* the loop of generate_signals_with_confluence, visiting the keys in the
\* order the HashMap iterator yields them
RECURSIVE confluence_loop(_, _, _)
confluence_loop(by_date, order, i) ==
    IF i = 0 THEN <<>>
    ELSE confluence_loop(by_date, order, i - 1) \o by_date[order[i]]

\* the orders in which a HashMap with key set S can be iterated: std's HashMap
\* seeds its hasher per map, so every order of the keys is possible
IterationOrders(S) ==
    LET sorted == SortedDates(S)
    IN  {[i \in 1..Len(sorted) |-> p[sorted[i]]] : p \in Permutations(S)}

----------------------------------------------------------------------------
(* Bounded inputs of generate_signals and generate_signals_with_confluence *)

RsiDates == 4
SeriesDates == 3
MaxRecords == 3
MaxBars == 2
ConfluenceDates == 2

TechnicalIndicator(date, name, value) ==
    [date |-> date, indicator_name |-> name, value |-> F(value)]

DailyPrice(date, close) == [date |-> date, close |-> F(close)]

\* one day of a series: the (name, value) pairs recorded and the day's close,
\* None for a day without a price bar
Day(recs, close) == [recs |-> recs, close |-> close]

Filler == <<"ATR_14", 2>>

Bands == <<<<"BB_UPPER_20", 110>>, <<"BB_LOWER_20", 90>>, <<"BB_MIDDLE_20", 100>>>>

Single(name, values) ==
    {Day(<<Filler>>, Some(100))} \cup {Day(<<<<name, v>>>>, Some(100)) : v \in values}

Pair(n1, n2, pairs) ==
    {Day(<<<<n1, 1>>>>, Some(100))} \cup {Day(<<<<n1, p[1]>>, <<n2, p[2]>>>>, Some(100)) : p \in pairs}

\* RSI below, on, between and above the thresholds 30 and 70
RsiDays == Single("RSI_14", {25, 30, 65, 68, 70, 72, 74})

SeriesDays ==
    {Single("ADX_14", {15, 20, 25, 30}),
     Single("WILLR_14", {-90, -50, -10}),
     Single("CCI_20", {-150, -100, 100, 150}),
     Single("MFI_14", {10, 50, 85}),
     Pair("MACD_12_26", "MACD_SIGNAL_9", {<<1, 2>>, <<2, 2>>, <<3, 2>>}),
     Pair("SMA_20", "SMA_50", {<<1, 2>>, <<3, 2>>, <<-1, -2>>, <<-3, -2>>, <<1, 0>>}),
     \* %K under and over %D inside the bands, exactly on a band edge, and equal
     Pair("STOCH_K_14", "STOCH_D_3",
          {<<30, 35>>, <<35, 30>>, <<70, 65>>, <<65, 70>>, <<40, 35>>, <<60, 65>>, <<50, 50>>}),
     {Day(<<Bands[1], Bands[2]>>, Some(115)), Day(Bands, Some(85)), Day(Bands, Some(100)),
      Day(Bands, Some(115)), Day(Bands, Some(110)), Day(Bands, None)}}

\* the records of one day stamped with its date
DayRecords(date, d) ==
    [i \in 1..Len(d.recs) |-> TechnicalIndicator(date, d.recs[i][1], d.recs[i][2])]

DayBar(date, d) == IF IsSome(d.close) THEN <<DailyPrice(date, d.close[1])>> ELSE <<>>

RECURSIVE SeriesRecords(_, _)
SeriesRecords(s, k) ==
    IF k = 0 THEN <<>> ELSE SeriesRecords(s, k - 1) \o DayRecords(k, s[k])

RECURSIVE SeriesBars(_, _)
SeriesBars(s, k) ==
    IF k = 0 THEN <<>> ELSE SeriesBars(s, k - 1) \o DayBar(k, s[k])

SeriesInput(s) == <<SeriesRecords(s, Len(s)), SeriesBars(s, Len(s))>>

\* one detector's indicators over consecutive dates, records in date order
SeriesInputs ==
    {SeriesInput(s) : s \in [1..RsiDates -> RsiDays]}
    \cup UNION {{SeriesInput(s) : s \in [1..SeriesDates -> days]} : days \in SeriesDays}

Reverse(s) == [i \in 1..Len(s) |-> s[Len(s) + 1 - i]]

\* per detector: the records of a first day and of a second day on which it
\* fires (Williams %R fires on the first day as well)
Firing ==
    [RSI |-> <<<<<<"RSI_14", 65>>>>, <<<<"RSI_14", 72>>>>>>,
     MACD |-> <<<<<<"MACD_12_26", 1>>, <<"MACD_SIGNAL_9", 2>>>>,
                <<<<"MACD_12_26", 3>>, <<"MACD_SIGNAL_9", 2>>>>>>,
     BB |-> <<<<>>, Bands>>,
     MA |-> <<<<<<"SMA_20", 1>>, <<"SMA_50", 2>>>>, <<<<"SMA_20", 3>>, <<"SMA_50", 2>>>>>>,
     ADX |-> <<<<<<"ADX_14", 22>>>>, <<<<"ADX_14", 30>>>>>>,
     STOCH |-> <<<<<<"STOCH_K_14", 30>>, <<"STOCH_D_3", 35>>>>,
                 <<<<"STOCH_K_14", 35>>, <<"STOCH_D_3", 30>>>>>>,
     WILLR |-> <<<<<<"WILLR_14", -90>>>>, <<<<"WILLR_14", -10>>>>>>,
     CCI |-> <<<<<<"CCI_20", 50>>>>, <<<<"CCI_20", 150>>>>>>,
     MFI |-> <<<<<<"MFI_14", 50>>>>, <<<<"MFI_14", 85>>>>>>]

RECURSIVE FiringDay(_, _)
FiringDay(G, which) ==
    IF G = {} THEN <<>>
    ELSE LET g == CHOOSE x \in G : TRUE
         IN  Firing[g][which] \o FiringDay(G \ {g}, which)

FiringRecords(G) ==
    DayRecords(1, Day(FiringDay(G, 1), Some(100))) \o DayRecords(2, Day(FiringDay(G, 2), Some(115)))

FiringBars == <<DailyPrice(1, 100), DailyPrice(2, 115)>>

\* any set of detectors firing on the same second day, records in either order
FiringInputs ==
    UNION {{<<FiringRecords(G), FiringBars>>, <<Reverse(FiringRecords(G)), FiringBars>>}
           : G \in SUBSET DOMAIN Firing}

SeqsUpTo(S, n) == UNION {[1..k -> S] : k \in 0..n}

FreeRecords ==
    {TechnicalIndicator(d, r[1], r[2]) :
        d \in {1, 3}, r \in {<<"RSI_14", 65>>, <<"RSI_14", 72>>, <<"CCI_20", 150>>}}

FullBars == <<DailyPrice(1, 100), DailyPrice(2, 100), DailyPrice(3, 100)>>

\* any short list of records, duplicates and any order included
FreeIndicatorInputs == {<<inds, FullBars>> : inds \in SeqsUpTo(FreeRecords, MaxRecords)}

\* the five voting sources of a day agreeing, or split
Bull5 == Day(<<<<"RSI_14", 25>>, <<"MACD_12_26", 3>>, <<"MACD_SIGNAL_9", 2>>,
               <<"BB_UPPER_20", 110>>, <<"BB_LOWER_20", 90>>,
               <<"STOCH_K_14", 15>>, <<"CCI_20", -150>>>>, Some(85))

Bear5 == Day(<<<<"RSI_14", 80>>, <<"MACD_12_26", 1>>, <<"MACD_SIGNAL_9", 2>>,
               <<"BB_UPPER_20", 110>>, <<"BB_LOWER_20", 90>>,
               <<"STOCH_K_14", 85>>, <<"CCI_20", 150>>>>, Some(115))

Bull3Adx == Day(<<<<"RSI_14", 25>>, <<"STOCH_K_14", 15>>, <<"CCI_20", -150>>,
                  <<"ADX_14", 40>>>>, Some(100))

Split == Day(<<<<"RSI_14", 25>>, <<"MACD_12_26", 1>>, <<"MACD_SIGNAL_9", 2>>,
               <<"STOCH_K_14", 15>>, <<"CCI_20", 50>>>>, Some(100))

ConfluenceDays == {Bull5, Bear5, Bull3Adx, Split}

ConfluenceInputs == {SeriesInput(s) : s \in [1..ConfluenceDates -> ConfluenceDays]}

FreeBars == {DailyPrice(1, 100), DailyPrice(1, 90), DailyPrice(2, 100)}

\* any short list of price bars against a few fixed indicator lists
FreeBarInputs ==
    {<<inds, ps>> :
        inds \in {<<>>, DayRecords(1, Day(<<<<"RSI_14", 75>>>>, Some(100))), DayRecords(1, Bull5)},
        ps \in SeqsUpTo(FreeBars, MaxBars)}

Inputs ==
    SeriesInputs \cup FiringInputs \cup FreeIndicatorInputs \cup ConfluenceInputs
    \cup FreeBarInputs

----------------------------------------------------------------------------
(* The clock, the trade queue and the state of the scheduler task *)

MaxDays == 3
MaxTrades == 2

\* day 1 of the modelled calendar is a Thursday
Weekdays == <<"Thu", "Fri", "Sat", "Sun", "Mon", "Tue", "Wed">>

\* chrono's weekday() of a date
weekday_of(date) == Weekdays[((date + 6) % 7) + 1]

\* utc - chrono::Duration::hours(offset_hours), 4 hours from April to
\* October, 5 otherwise; a subtraction past midnight lands on the day before
utc_to_et(utc) ==
    LET is_dst == utc.month >= 4 /\ utc.month <= 10
        offset_hours == IF is_dst THEN 4 ELSE 5
    IN  IF utc.hour >= offset_hours
        THEN [utc EXCEPT !.hour = @ - offset_hours]
        ELSE [utc EXCEPT !.hour = @ + 24 - offset_hours, !.day = @ - 1]

\* the times of day at which the clock is read, in UTC: 13:30 and 13:31 are
\* 9:30 and 9:31 ET in summer, 14:30 and 14:31 in winter
UtcTimes == <<<<3, 30>>, <<13, 30>>, <<13, 31>>, <<14, 29>>, <<14, 30>>, <<14, 31>>,
              <<14, 32>>>>

Months == {1, 7}

TimeAt(month, date, i) ==
    [month |-> month, day |-> date, hour |-> UtcTimes[i][1], minute |-> UtcTimes[i][2]]

TimeIndex(t) == CHOOSE i \in DOMAIN UtcTimes : UtcTimes[i] = <<t.hour, t.minute>>

\* a row of the trade queue as the scheduler and the handlers see it
QueuedTrade(id, portfolio, action, target_price, status) ==
    [id |-> id, portfolio |-> portfolio, action |-> action,
     target_price |-> target_price, status |-> status]

\* Database::queue_trade: a new row with the next id, status 'queued'
queue_trade(table, portfolio, action, target_price) ==
    Append(table, QueuedTrade(Len(table) + 1, portfolio, action, target_price, "queued"))

\* Database::count_queued_trades(status)
count_queued_trades(table, status) ==
    Cardinality({i \in DOMAIN table : table[i].status = status})

\* Database::get_queued_trades(Some(status)): the rows with the status, by id
get_queued_trades(table, status) == SelectSeq(table, LAMBDA t : t.status = status)

\* Database::update_queue_status(id, status, ..): the row's status is set
update_queue_status(table, id, status) == [table EXCEPT ![id].status = status]

\* Database::cancel_queued_trade(id): a row still 'queued' becomes 'cancelled'
cancel_queued_trade(table, id) ==
    IF table[id].status = "queued" THEN [table EXCEPT ![id].status = "cancelled"]
    ELSE table

\* str::to_uppercase on the strings the requests carry
to_uppercase(str) ==
    CASE str \in {"kalic", "KALIC"} -> "KALIC"
      [] str \in {"dc", "DC"} -> "DC"
      [] str \in {"ira", "IRA"} -> "IRA"
      [] str \in {"buy", "BUY"} -> "BUY"
      [] str \in {"sell", "SELL"} -> "SELL"
      [] str \in {"hold", "HOLD"} -> "HOLD"

\* the scheduler task before its first iteration, an empty database
SchedulerStart(month) ==
    /\ now_utc = TimeAt(month, 1, 1)
    /\ last_execution_date = None
    /\ pc = "loop"
    /\ loop_today = 0
    /\ queued = <<>>
    /\ cursor = 0
    /\ trade_price = F(0)
    /\ exec_result = None
    /\ trade_queue = <<>>
    /\ portfolio_trades = <<>>
    /\ calls = <<>>
    /\ cancelled = {}
    /\ late_for = <<>>
    /\ checked = {}

----------------------------------------------------------------------------
(* The engine invoked on fixed inputs *)

NoDay == [date |-> 0, price |-> F(0), indicators |-> EmptyMap]

Init ==
    /\ config = SignalConfigDefault
    /\ confluence_config = ConfluenceConfigDefault
    /\ \E in \in Inputs : indicators = in[1] /\ prices = in[2]
    /\ op = "none"
    /\ signals = <<>>
    /\ confluence_signals = <<>>
    /\ day = NoDay
    /\ confluence = None
    /\ SchedulerStart(1)

GenerateSignals ==
    /\ op' = "generate_signals"
    /\ signals' = generate_signals(indicators, prices)
    /\ confluence_signals' = <<>>
    /\ UNCHANGED <<config, confluence_config, indicators, prices, day, confluence>>
    /\ UNCHANGED sched_vars

GenerateSignalsWithConfluence ==
    LET individual_signals == generate_signals(indicators, prices)
        indicator_map == build_indicator_map(indicators)
        price_map == price_map_loop(prices, Len(prices))
        by_date == day_confluence(indicator_map, price_map)
    IN  /\ op' = "generate_signals_with_confluence"
        /\ signals' = individual_signals
        \* a key whose evaluation is None pushes nothing, so the place of such
        \* keys in the iteration does not show: the orders of the others are drawn
        /\ \E order \in IterationOrders({d \in DOMAIN by_date : IsSome(by_date[d])}) :
              confluence_signals' = confluence_loop(by_date, order, Len(order))
        /\ UNCHANGED <<config, confluence_config, indicators, prices, day, confluence>>
        /\ UNCHANGED sched_vars

Next == GenerateSignals \/ GenerateSignalsWithConfluence

Spec == Init /\ [][Next]_vars


----------------------------------------------------------------------------
(* detect_confluence_signal invoked on one day's map *)

MaxMinAgreeing == 4

\* the default strong-trend threshold and a raised one
AdxThresholds == {F(25), F(30)}

ConfluenceConfigs ==
    {[ConfluenceConfigDefault EXCEPT !.min_agreeing_indicators = m,
                                     !.adx_strong_trend = t] :
        m \in 0..MaxMinAgreeing, t \in AdxThresholds}

RECURSIVE MapOf(_, _)
MapOf(recs, k) ==
    IF k = 0 THEN EmptyMap ELSE Insert(MapOf(recs, k - 1), recs[k][1], F(recs[k][2]))

\* per source: absent, voting Bullish, in the neutral zone, voting Bearish
RsiChoices == {<<>>, <<<<"RSI_14", 25>>>>, <<<<"RSI_14", 50>>>>, <<<<"RSI_14", 80>>>>}

MacdChoices ==
    {<<>>, <<<<"MACD_12_26", 3>>>>,
     <<<<"MACD_12_26", 3>>, <<"MACD_SIGNAL_9", 2>>>>,
     <<<<"MACD_12_26", 2>>, <<"MACD_SIGNAL_9", 2>>>>,
     <<<<"MACD_12_26", 1>>, <<"MACD_SIGNAL_9", 2>>>>}

\* the bands with the day's close: absent, close below, inside, above
BandChoices ==
    {[recs |-> <<>>, close |-> 100]}
    \cup {[recs |-> <<<<"BB_UPPER_20", 110>>, <<"BB_LOWER_20", 90>>>>, close |-> c]
          : c \in {85, 100, 115}}

StochChoices ==
    {<<>>, <<<<"STOCH_K_14", 15>>>>, <<<<"STOCH_K_14", 50>>>>, <<<<"STOCH_K_14", 85>>>>}

CciChoices == {<<>>, <<<<"CCI_20", -150>>>>, <<<<"CCI_20", 50>>>>, <<<<"CCI_20", 150>>>>}

\* ADX absent, weak, exactly at the strong-trend threshold, strong
AdxChoices == {<<>>, <<<<"ADX_14", 15>>>>, <<<<"ADX_14", 25>>>>, <<<<"ADX_14", 40>>>>}

\* the names detect_confluence_signal never reads: absent, or all recorded
\* (the recorded middle band is not the midpoint of the two bands)
OtherChoices ==
    {<<>>,
     <<<<"WILLR_14", -90>>, <<"MFI_14", 10>>, <<"SMA_20", 3>>, <<"SMA_50", 2>>,
       <<"STOCH_D_3", 30>>, <<"BB_MIDDLE_20", 95>>>>}

DayInputs ==
    {[date |-> 1, price |-> F(bands.close),
      indicators |-> MapOf(rsi \o macd \o bands.recs \o stoch \o cci \o adx \o other,
                           Len(rsi \o macd \o bands.recs \o stoch \o cci \o adx \o other))] :
        rsi \in RsiChoices, macd \in MacdChoices, bands \in BandChoices,
        stoch \in StochChoices, cci \in CciChoices, adx \in AdxChoices,
        other \in OtherChoices}

InitConfluence ==
    /\ config = SignalConfigDefault
    /\ confluence_config \in ConfluenceConfigs
    /\ indicators = <<>>
    /\ prices = <<>>
    /\ op = "none"
    /\ signals = <<>>
    /\ confluence_signals = <<>>
    /\ day \in DayInputs
    /\ confluence = None
    /\ SchedulerStart(1)

DetectConfluenceSignal ==
    /\ op' = "detect_confluence_signal"
    /\ confluence' = detect_confluence_signal(day.date, day.price, day.indicators)
    /\ UNCHANGED <<config, confluence_config, indicators, prices, signals,
                   confluence_signals, day>>
    /\ UNCHANGED sched_vars

NextConfluence == DetectConfluenceSignal

ConfluenceSpec == InitConfluence /\ [][NextConfluence]_vars


----------------------------------------------------------------------------
(* run_scheduler, execute_queued_trades and the queue handlers of http_api *)

\* a window test that forgets the date already handled
is_market_open_window_every_check(now_et, last_date) ==
    /\ weekday_of(now_et.day) \notin {"Sat", "Sun"}
    /\ now_et.hour = 9
    /\ now_et.minute >= 30
    /\ now_et.minute <= 31

\* a window test that looks at the minute only
is_market_open_window_any_hour(now_et, last_date) ==
    /\ weekday_of(now_et.day) \notin {"Sat", "Sun"}
    /\ now_et.minute >= 30
    /\ now_et.minute <= 31
    /\ last_date # Some(now_et.day)

\* an empty check that leaves the date open
mark_checked_left_open(last_date, date) == last_date

\* is_market_open_window of run_scheduler
is_market_open_window(now_et, last_date) ==
    LET is_weekday == weekday_of(now_et.day) \notin {"Sat", "Sun"}
    IN  /\ is_weekday
        /\ now_et.hour = 9
        /\ now_et.minute >= 30
        /\ now_et.minute <= 31
        /\ last_date # Some(now_et.day)

\* the else branch of `if has_queued`: last_execution_date = Some(today)
mark_checked(last_date, date) == Some(date)

\* a weekday between 9:30 and 9:31 ET
InWindow(now_et) ==
    /\ weekday_of(now_et.day) \notin {"Sat", "Sun"}
    /\ now_et.hour = 9
    /\ now_et.minute \in {30, 31}

\* the locals of execute_queued_trades once it has returned
PassOver ==
    /\ queued' = <<>>
    /\ cursor' = 0
    /\ trade_price' = F(0)
    /\ exec_result' = None

\* one iteration of the loop of run_scheduler up to the sleep, or up to the
\* call of execute_queued_trades
Check ==
    /\ pc = "loop"
    /\ LET now_et == utc_to_et(now_utc)
           date == now_et.day
           has_queued == count_queued_trades(trade_queue, "queued") > 0
       IN  IF is_market_open_window(now_et, last_execution_date)
           THEN IF has_queued
                THEN /\ pc' = "snapshot"
                     /\ loop_today' = date
                     /\ calls' = Append(calls, [today |-> date, at |-> now_utc,
                                                queued_count |->
                                                  count_queued_trades(trade_queue, "queued"),
                                                ids |-> {}])
                     /\ UNCHANGED last_execution_date
                ELSE /\ last_execution_date' = mark_checked(last_execution_date, date)
                     /\ UNCHANGED <<pc, calls, loop_today>>
           ELSE UNCHANGED <<pc, calls, last_execution_date, loop_today>>
    /\ checked' = IF /\ InWindow(utc_to_et(now_utc))
                     /\ count_queued_trades(trade_queue, "queued") = 0
                  THEN checked \cup {utc_to_et(now_utc).day}
                  ELSE checked
    /\ UNCHANGED <<now_utc, queued, cursor, trade_price, exec_result, trade_queue,
                   portfolio_trades, cancelled, late_for>>
    /\ UNCHANGED engine_vars

\* step 1 of execute_queued_trades: the snapshot of the 'queued' rows; an
\* empty snapshot returns to run_scheduler, which records the date
Snapshot ==
    /\ pc = "snapshot"
    /\ LET rows == get_queued_trades(trade_queue, "queued")
       IN  IF rows = <<>>
           THEN /\ last_execution_date' = Some(loop_today)
                /\ pc' = "loop"
                /\ PassOver
                /\ UNCHANGED calls
           ELSE /\ queued' = rows
                /\ pc' = "refresh"
                /\ calls' = [calls EXCEPT ![Len(calls)].ids =
                                {rows[i].id : i \in DOMAIN rows}]
                /\ UNCHANGED <<last_execution_date, cursor, trade_price, exec_result>>
    /\ UNCHANGED <<now_utc, loop_today, trade_queue, portfolio_trades, cancelled, late_for>>
    /\ UNCHANGED checked
    /\ UNCHANGED engine_vars

\* step 2: refresh_prices_for_symbols, under its own lock; the loop starts
Refresh ==
    /\ pc = "refresh"
    /\ pc' = "mark"
    /\ cursor' = 1
    /\ UNCHANGED <<now_utc, last_execution_date, loop_today, queued, trade_price,
                   exec_result, trade_queue, portfolio_trades, calls, cancelled, late_for>>
    /\ UNCHANGED checked
    /\ UNCHANGED engine_vars

\* the end of one iteration of `for trade in &queued`; after the last one the
\* log is written and run_scheduler records the date
NextTrade ==
    IF cursor < Len(queued)
    THEN /\ cursor' = cursor + 1
         /\ pc' = "mark"
         /\ UNCHANGED <<last_execution_date, queued, trade_price, exec_result>>
    ELSE /\ last_execution_date' = Some(loop_today)
         /\ pc' = "loop"
         /\ PassOver

\* "Mark as executing"
Mark ==
    /\ pc = "mark"
    /\ trade_queue' = update_queue_status(trade_queue, queued[cursor].id, "executing")
    /\ pc' = "price"
    /\ UNCHANGED <<now_utc, last_execution_date, loop_today, queued, cursor, trade_price,
                   exec_result, portfolio_trades, calls, cancelled, late_for>>
    /\ UNCHANGED checked
    /\ UNCHANGED engine_vars

\* the price: the trade's target, else the latest stored close, else 0.0
Price ==
    /\ pc = "price"
    /\ \E latest \in {None, Some(F(100))} :
          LET trade == queued[cursor]
              p == IF IsSome(trade.target_price) THEN trade.target_price[1]
                   ELSE IF IsSome(latest) THEN latest[1] ELSE F(0)
          IN  /\ trade_price' = p
              /\ pc' = IF FLe(p, F(0)) THEN "no_price" ELSE "execute"
    /\ UNCHANGED <<now_utc, last_execution_date, loop_today, queued, cursor, exec_result,
                   trade_queue, portfolio_trades, calls, cancelled, late_for>>
    /\ UNCHANGED checked
    /\ UNCHANGED engine_vars

\* price <= 0.0: the row is set to 'failed', the loop continues
NoPrice ==
    /\ pc = "no_price"
    /\ trade_queue' = update_queue_status(trade_queue, queued[cursor].id, "failed")
    /\ NextTrade
    /\ UNCHANGED <<now_utc, loop_today, portfolio_trades, calls, cancelled, late_for>>
    /\ UNCHANGED checked
    /\ UNCHANGED engine_vars

\* "Execute based on portfolio type": an action other than BUY / SELL for
\* KALIC and a portfolio other than KALIC / DC `continue`; otherwise the
\* database executes the trade or refuses it
Execute ==
    /\ pc = "execute"
    /\ LET trade == queued[cursor]
       IN  IF \/ trade.portfolio = "KALIC" /\ trade.action \notin {"BUY", "SELL"}
              \/ trade.portfolio \notin {"KALIC", "DC"}
           THEN /\ NextTrade
                /\ UNCHANGED portfolio_trades
           ELSE \E result \in {"Ok", "Err"} :
                   /\ exec_result' = Some(result)
                   /\ portfolio_trades' =
                         IF result = "Ok"
                         THEN Append(portfolio_trades,
                                     [portfolio |-> trade.portfolio, action |-> trade.action,
                                      price |-> trade_price, queue_id |-> trade.id,
                                      date |-> loop_today])
                         ELSE portfolio_trades
                   /\ pc' = "update"
                   /\ UNCHANGED <<last_execution_date, queued, cursor, trade_price>>
    /\ UNCHANGED <<now_utc, loop_today, trade_queue, calls, cancelled, late_for>>
    /\ UNCHANGED checked
    /\ UNCHANGED engine_vars

\* "Update queue status": 'executed' on Ok, 'failed' on Err
Update ==
    /\ pc = "update"
    /\ trade_queue' = update_queue_status(trade_queue, queued[cursor].id,
                          IF exec_result = Some("Ok") THEN "executed" ELSE "failed")
    /\ NextTrade
    /\ UNCHANGED <<now_utc, loop_today, portfolio_trades, calls, cancelled, late_for>>
    /\ UNCHANGED checked
    /\ UNCHANGED engine_vars

\* the requests the queue handlers receive
Requests ==
    { [portfolio |-> "kalic", action |-> "buy",  target_price |-> None],
      [portfolio |-> "DC",    action |-> "SELL", target_price |-> Some(F(150))],
      [portfolio |-> "KALIC", action |-> "hold", target_price |-> Some(F(150))],
      [portfolio |-> "ira",   action |-> "BUY",  target_price |-> None] }

Batches == UNION { [1..n -> Requests] : n \in 1..MaxTrades }

\* the ET date of today if a window check has found the queue empty today,
\* 0 otherwise: the date a row added now comes too late for
LateFor ==
    IF utc_to_et(now_utc).day \in checked
    THEN utc_to_et(now_utc).day
    ELSE 0

\* POST /api/queue
AddToQueue ==
    /\ Len(trade_queue) < MaxTrades
    /\ \E req \in Requests :
          LET portfolio == to_uppercase(req.portfolio)
              action == to_uppercase(req.action)
          IN  IF portfolio # "KALIC" /\ portfolio # "DC"
              THEN UNCHANGED <<trade_queue, late_for>>
              ELSE IF action # "BUY" /\ action # "SELL"
                   THEN UNCHANGED <<trade_queue, late_for>>
                   ELSE /\ trade_queue' = queue_trade(trade_queue, portfolio, action,
                                                      req.target_price)
                        /\ late_for' = Append(late_for, LateFor)
    /\ UNCHANGED <<now_utc, last_execution_date, pc, loop_today, queued, cursor,
                   trade_price, exec_result, portfolio_trades, calls, cancelled>>
    /\ UNCHANGED checked
    /\ UNCHANGED engine_vars

\* the loop of add_batch_to_queue
RECURSIVE add_batch_loop(_, _, _)
add_batch_loop(table, trades, i) ==
    IF i > Len(trades)
    THEN table
    ELSE add_batch_loop(queue_trade(table, to_uppercase(trades[i].portfolio),
                                    to_uppercase(trades[i].action), trades[i].target_price),
                        trades, i + 1)

\* POST /api/queue/batch
AddBatchToQueue ==
    /\ \E trades \in Batches :
          /\ Len(trade_queue) + Len(trades) <= MaxTrades
          /\ trade_queue' = add_batch_loop(trade_queue, trades, 1)
          /\ late_for' = late_for \o [i \in 1..Len(trades) |-> LateFor]
    /\ UNCHANGED <<now_utc, last_execution_date, pc, loop_today, queued, cursor,
                   trade_price, exec_result, portfolio_trades, calls, cancelled>>
    /\ UNCHANGED checked
    /\ UNCHANGED engine_vars

\* DELETE /api/queue/:id
CancelQueueItem ==
    /\ \E id \in DOMAIN trade_queue :
          /\ trade_queue' = cancel_queued_trade(trade_queue, id)
          /\ cancelled' = IF trade_queue[id].status = "queued"
                          THEN cancelled \cup {id}
                          ELSE cancelled
    /\ UNCHANGED <<now_utc, last_execution_date, pc, loop_today, queued, cursor,
                   trade_price, exec_result, portfolio_trades, calls, late_for>>
    /\ UNCHANGED checked
    /\ UNCHANGED engine_vars

\* the clock moves on to the next observed minute, or to the next day
Tick ==
    /\ LET i == TimeIndex(now_utc)
       IN  IF i < Len(UtcTimes)
           THEN now_utc' = TimeAt(now_utc.month, now_utc.day, i + 1)
           ELSE /\ now_utc.day < MaxDays
                /\ now_utc' = TimeAt(now_utc.month, now_utc.day + 1, 1)
    /\ UNCHANGED <<last_execution_date, pc, loop_today, queued, cursor, trade_price,
                   exec_result, trade_queue, portfolio_trades, calls, cancelled, late_for>>
    /\ UNCHANGED checked
    /\ UNCHANGED engine_vars

InitScheduler ==
    /\ config = SignalConfigDefault
    /\ confluence_config = ConfluenceConfigDefault
    /\ indicators = <<>>
    /\ prices = <<>>
    /\ op = "none"
    /\ signals = <<>>
    /\ confluence_signals = <<>>
    /\ day = NoDay
    /\ confluence = None
    /\ \E month \in Months : SchedulerStart(month)

NextScheduler ==
    \/ Tick
    \/ Check
    \/ Snapshot
    \/ Refresh
    \/ Mark
    \/ Price
    \/ NoPrice
    \/ Execute
    \/ Update
    \/ AddToQueue
    \/ AddBatchToQueue
    \/ CancelQueueItem

SchedulerSpec == InitScheduler /\ [][NextScheduler]_vars

----------------------------------------------------------------------------
(* Properties of generate_signals *)

\* a state in which generate_signals has returned (alone or as the first step
\* of generate_signals_with_confluence) after reaching its loop
Generated == op \in {"generate_signals", "generate_signals_with_confluence"}

IndexDates == SortedDates(DOMAIN build_indicator_map(indicators))

\* a and b are neighbours in the sorted dates of the index
ConsecutiveDates(a, b) ==
    \E i \in 1..(Len(IndexDates) - 1) : IndexDates[i] = a /\ IndexDates[i + 1] = b

BollingerTypes == {"BollingerUpperBreak", "BollingerLowerBreak"}

RsiExample ==
    <<TechnicalIndicator(1, "RSI_14", 65), TechnicalIndicator(2, "RSI_14", 72),
      TechnicalIndicator(3, "RSI_14", 74), TechnicalIndicator(4, "RSI_14", 68)>>

\* C1: no detector that compares against the previous index date emits the
\* same SignalType on two consecutive dates of the index; RSI 65, 72, 74, 68
\* on four consecutive dates yields RsiOverbought/Bearish on the second only.
C1_NoRepeatOnConsecutiveDates ==
    Generated =>
        /\ \A i, j \in DOMAIN signals :
              (/\ signals[i].signal_type = signals[j].signal_type
               /\ signals[i].signal_type \notin BollingerTypes)
              => ~ConsecutiveDates(signals[i].timestamp, signals[j].timestamp)
        /\ (indicators = RsiExample /\ Len(prices) > 0) =>
              /\ Len(signals) = 1
              /\ signals[1].signal_type = "RsiOverbought"
              /\ signals[1].direction = "Bearish"
              /\ signals[1].timestamp = 2

C1_Witness ==
    /\ Generated
    /\ indicators = RsiExample
    /\ Len(signals) = 1
    /\ signals[1].timestamp = 2

\* the single-indicator threshold detectors: name, thresholds, signal types
ThresholdDetectors ==
    {[name |-> "RSI_14", over |-> config.rsi_overbought, under |-> config.rsi_oversold,
      over_type |-> "RsiOverbought", under_type |-> "RsiOversold"],
     [name |-> "ADX_14", over |-> config.adx_strong_trend, under |-> config.adx_weak_trend,
      over_type |-> "AdxTrendStrong", under_type |-> "AdxTrendWeak"],
     [name |-> "WILLR_14", over |-> config.willr_overbought, under |-> config.willr_oversold,
      over_type |-> "WillrOverbought", under_type |-> "WillrOversold"],
     [name |-> "CCI_20", over |-> config.cci_overbought, under |-> config.cci_oversold,
      over_type |-> "CciOverbought", under_type |-> "CciOversold"],
     [name |-> "MFI_14", over |-> config.mfi_overbought, under |-> config.mfi_oversold,
      over_type |-> "MfiOverbought", under_type |-> "MfiOversold"]}

Emitted(signal_type, date) ==
    \E i \in DOMAIN signals :
        signals[i].signal_type = signal_type /\ signals[i].timestamp = date

\* position i of the sorted index dates has no previous value of name
NoPreviousValue(name, i) ==
    \/ i = 1
    \/ name \notin DOMAIN build_indicator_map(indicators)[IndexDates[i - 1]]

\* C2: cold start: when a run of generate_signals evaluates a date on which a
\* single-indicator threshold detector's value is beyond its threshold and
\* there is no previous value (first index date, or the previous index date
\* lacks the name), the signal is emitted on that date; a single-date series
\* with RSI_14 = 75 emits RsiOverbought with strength (75-70)/30.
C2_ColdStart ==
    (Generated /\ Len(prices) > 0) =>
        \A det \in ThresholdDetectors : \A i \in DOMAIN IndexDates :
            LET today == build_indicator_map(indicators)[IndexDates[i]]
            IN  (det.name \in DOMAIN today /\ NoPreviousValue(det.name, i)) =>
                  /\ FGt(today[det.name], det.over)
                        => Emitted(det.over_type, IndexDates[i])
                  /\ (~FGt(today[det.name], det.over) /\ FLt(today[det.name], det.under))
                        => Emitted(det.under_type, IndexDates[i])

C2_Witness ==
    /\ Generated
    /\ indicators = <<TechnicalIndicator(1, "RSI_14", 75)>>
    /\ Len(signals) = 1
    /\ signals[1].signal_type = "RsiOverbought"
    /\ signals[1].timestamp = 1
    /\ signals[1].strength = Frac(1, 6)

InUnitInterval(x) == FLe(F(0), x) /\ FLe(x, F(1))

ConfluenceInUnitInterval(c) ==
    /\ InUnitInterval(c.strength)
    /\ \A i \in DOMAIN c.contributing_indicators :
          InUnitInterval(c.contributing_indicators[i].strength)

\* C3: every strength the engine reports (of a Signal, an IndicatorVote, a
\* ConfluenceSignal) lies in [0,1].
C3_StrengthInUnitInterval ==
    /\ \A i \in DOMAIN signals : InUnitInterval(signals[i].strength)
    /\ \A i \in DOMAIN confluence_signals : ConfluenceInUnitInterval(confluence_signals[i])
    /\ IsSome(confluence) => ConfluenceInUnitInterval(confluence[1])

\* C4: two invocations of the same entry point on the same inputs return
\* identical lists, order included.
C4_Deterministic ==
    [][(op # "none" /\ op' = op)
        => (signals' = signals /\ confluence_signals' = confluence_signals)]_vars

\* C5: generate_signals returns an empty list whenever the indicator list or
\* the price list is empty.
C5_EmptyInputEmptyOutput ==
    (op = "generate_signals" /\ (Len(indicators) = 0 \/ Len(prices) = 0))
        => signals = <<>>

C5_Witness ==
    /\ op = "generate_signals"
    /\ Len(prices) = 0
    /\ indicators = <<TechnicalIndicator(1, "RSI_14", 75)>>
    /\ signals = <<>>

\* the place of a signal type's detector in the loop body of generate_signals
DetectorRank(signal_type) ==
    CASE signal_type \in {"RsiOverbought", "RsiOversold"} -> 1
      [] signal_type \in {"MacdBullishCross", "MacdBearishCross"} -> 2
      [] signal_type \in BollingerTypes -> 3
      [] signal_type \in {"MaCrossoverBullish", "MaCrossoverBearish"} -> 4
      [] signal_type \in {"AdxTrendStrong", "AdxTrendWeak"} -> 5
      [] signal_type \in {"StochBullishCross", "StochBearishCross"} -> 6
      [] signal_type \in {"WillrOverbought", "WillrOversold"} -> 7
      [] signal_type \in {"CciOverbought", "CciOversold"} -> 8
      [] signal_type \in {"MfiOverbought", "MfiOversold"} -> 9

\* C6: the returned list is ordered by date ascending, and signals of one date
\* follow the detector order RSI, MACD, Bollinger, MA crossover, ADX,
\* Stochastic, Williams %R, CCI, MFI, whatever the order of the input records.
C6_OrderedByDateThenDetector ==
    Generated =>
        \A i, j \in DOMAIN signals :
            i < j =>
                \/ signals[i].timestamp < signals[j].timestamp
                \/ /\ signals[i].timestamp = signals[j].timestamp
                   /\ DetectorRank(signals[i].signal_type)
                        < DetectorRank(signals[j].signal_type)

\* records given latest date first, signals on two dates, several on the second
C6_Witness ==
    /\ Generated
    /\ Len(indicators) > 1
    /\ indicators[1].date > indicators[Len(indicators)].date
    /\ \E i, j, k \in DOMAIN signals :
          /\ i < j /\ j < k
          /\ signals[i].timestamp < signals[j].timestamp
          /\ signals[j].timestamp = signals[k].timestamp
          /\ signals[k].signal_type \in {"MfiOverbought", "MfiOversold"}

\* the last record of the input list with this date and name
LastRecord(date, name) ==
    LET I == {i \in DOMAIN indicators :
                indicators[i].date = date /\ indicators[i].indicator_name = name}
    IN  indicators[CHOOSE i \in I : \A j \in I : j <= i]

\* C7: index building is last-write-wins: the index's dates are the distinct
\* dates of the input, each date's names are the names recorded for it, and
\* each value is that of the last record with its (date, name) pair.
C7_LastWriteWins ==
    LET map == build_indicator_map(indicators)
    IN  /\ DOMAIN map = {indicators[i].date : i \in DOMAIN indicators}
        /\ \A date \in DOMAIN map :
              /\ DOMAIN map[date] =
                    {indicators[i].indicator_name :
                        i \in {k \in DOMAIN indicators : indicators[k].date = date}}
              /\ \A name \in DOMAIN map[date] :
                    map[date][name] = LastRecord(date, name).value

\* a pair recorded twice with different values, the index used by a run
C7_Witness ==
    /\ Generated
    /\ \E i, j \in DOMAIN indicators :
          /\ i < j
          /\ indicators[i].date = indicators[j].date
          /\ indicators[i].indicator_name = indicators[j].indicator_name
          /\ indicators[i].value # indicators[j].value
          /\ LastRecord(indicators[i].date, indicators[i].indicator_name) = indicators[j]
          /\ Emitted("RsiOverbought", indicators[j].date)


----------------------------------------------------------------------------
(* Properties of detect_confluence_signal *)

\* detect_confluence_signal has returned for the day's map and close
Detected == op = "detect_confluence_signal"

\* the accumulators after the five sources have been evaluated on the day
DayVotes == collect_votes(day.price, day.indicators)

MinRequired == confluence_config.min_agreeing_indicators

DayOf(recs, close) ==
    [date |-> 1, price |-> F(close), indicators |-> MapOf(recs, Len(recs))]

\* the day of test_detect_confluence_insufficient_agreement
InsufficientDay ==
    DayOf(<<<<"RSI_14", 25>>, <<"MACD_12_26", 1>>, <<"MACD_SIGNAL_9", 2>>,
            <<"BB_UPPER_20", 110>>, <<"BB_LOWER_20", 90>>,
            <<"STOCH_K_14", 15>>, <<"CCI_20", 50>>>>, 100)

\* C8: detect_confluence_signal returns an event if and only if bullish_count
\* or bearish_count reaches min_agreeing_indicators; two bullish votes and one
\* bearish vote with minimum 3 give none.
C8_EventIffMinimumMet ==
    Detected =>
        /\ IsSome(confluence) <=>
              (\/ DayVotes.bullish_count >= MinRequired
               \/ DayVotes.bearish_count >= MinRequired)
        /\ IsSome(confluence) =>
              /\ confluence[1].bullish_count = DayVotes.bullish_count
              /\ confluence[1].bearish_count = DayVotes.bearish_count

C8_Witness ==
    /\ Detected
    /\ day = InsufficientDay
    /\ MinRequired = 3
    /\ DayVotes.bullish_count = 2
    /\ DayVotes.bearish_count = 1
    /\ confluence = None

\* C9: an emitted ConfluenceSignal is Bullish exactly when bullish_count
\* reaches the minimum (whatever bearish_count is), Bearish exactly when
\* bullish_count is below it and bearish_count reaches it, never Neutral; five
\* agreeing bullish (bearish) sources with minimum 3 give Bullish (Bearish).
C9_BullishFirst ==
    Detected =>
        /\ IsSome(confluence) =>
              LET c == confluence[1]
              IN  /\ c.direction = "Bullish" <=> c.bullish_count >= MinRequired
                  /\ c.direction = "Bearish" <=>
                        (c.bullish_count < MinRequired /\ c.bearish_count >= MinRequired)
                  /\ c.direction # "Neutral"
        /\ (DayVotes.bullish_count = 5 /\ MinRequired = 3) =>
              /\ IsSome(confluence)
              /\ confluence[1].direction = "Bullish"
              /\ confluence[1].bullish_count >= 3
        /\ (DayVotes.bearish_count = 5 /\ MinRequired = 3) =>
              /\ IsSome(confluence)
              /\ confluence[1].direction = "Bearish"
              /\ confluence[1].bearish_count >= 3

\* both sides reach the minimum and the event is Bullish
C9_Witness ==
    /\ Detected
    /\ IsSome(confluence)
    /\ MinRequired = 2
    /\ confluence[1].bullish_count = 2
    /\ confluence[1].bearish_count = 3
    /\ confluence[1].direction = "Bullish"

\* C10 as claimed: for every configuration, bullish_count and bearish_count
\* never both reach min_agreeing_indicators.
C10_NeverBothSides ==
    Detected =>
        ~(DayVotes.bullish_count >= MinRequired /\ DayVotes.bearish_count >= MinRequired)

\* C10 as amended: with min_agreeing_indicators >= 3 the two counts never both
\* reach the minimum, the five sources casting at most one vote each.
C10_NeverBothSidesFromThree ==
    (Detected /\ MinRequired >= 3) =>
        /\ DayVotes.bullish_count + DayVotes.bearish_count <= 5
        /\ ~(DayVotes.bullish_count >= MinRequired
             /\ DayVotes.bearish_count >= MinRequired)

\* votes on both sides, one side meeting a minimum of 3
C10_Witness ==
    /\ Detected
    /\ MinRequired = 3
    /\ DayVotes.bullish_count = 3
    /\ DayVotes.bearish_count = 2
    /\ IsSome(confluence)

\* the map without the given names
Without(inds, names) == [k \in DOMAIN inds \ names |-> inds[k]]

\* the day evaluated without its ADX_14 entry
WithoutAdx ==
    detect_confluence_signal(day.date, day.price, Without(day.indicators, {"ADX_14"}))

\* C11: adx_confidence is Some(adx) exactly when ADX_14 is in the day's map
\* and strictly above adx_strong_trend, None otherwise (None for ADX 15,
\* Some(40) for ADX 40); ADX casts no vote and changes neither the emission,
\* the counts, the vote list nor the direction.
C11_AdxIsConfidenceOnly ==
    Detected =>
        LET adx == Get(day.indicators, "ADX_14")
        IN  /\ IsSome(confluence) <=> IsSome(WithoutAdx)
            /\ IsSome(confluence) =>
                  LET c == confluence[1]
                  IN  /\ c.adx_confidence =
                            (IF IsSome(adx) /\ FGt(adx[1], confluence_config.adx_strong_trend)
                             THEN Some(adx[1]) ELSE None)
                      /\ adx = Some(F(15)) => c.adx_confidence = None
                      /\ adx = Some(F(40)) => c.adx_confidence = Some(F(40))
                      /\ c.bullish_count = WithoutAdx[1].bullish_count
                      /\ c.bearish_count = WithoutAdx[1].bearish_count
                      /\ c.contributing_indicators = WithoutAdx[1].contributing_indicators
                      /\ c.direction = WithoutAdx[1].direction
                      /\ \A i \in 1..Len(c.contributing_indicators) :
                            c.contributing_indicators[i].indicator_name # "ADX_14"
                      /\ Len(c.contributing_indicators) = c.bullish_count + c.bearish_count

\* three bullish votes and ADX 40 with minimum 3: Some(40), counts untouched
C11_Witness ==
    /\ Detected
    /\ MinRequired = 3
    /\ Get(day.indicators, "ADX_14") = Some(F(40))
    /\ IsSome(confluence)
    /\ confluence[1].adx_confidence = Some(F(40))
    /\ confluence[1].bullish_count = 3
    /\ confluence[1].bearish_count = 0

\* the day's map with ADX_14 absent or at or below the strong-trend threshold
WeakAdxMaps ==
    {Without(day.indicators, {"ADX_14"}),
     Insert(day.indicators, "ADX_14", F(15)),
     Insert(day.indicators, "ADX_14", confluence_config.adx_strong_trend)}

StrongAdxDay ==
    LET adx == Get(day.indicators, "ADX_14")
    IN  IsSome(adx) /\ FGt(adx[1], confluence_config.adx_strong_trend)

\* C12: with the strong-trend threshold at 25, whenever a confluence event is
\* emitted for a day with ADX above the threshold, its strength is >= the
\* strength of the event emitted for the same day and price with ADX absent
\* or at or below the threshold.
C12_AdxBoost ==
    (Detected /\ StrongAdxDay /\ IsSome(confluence)
     /\ confluence_config.adx_strong_trend = F(25)) =>
        \A weak_map \in WeakAdxMaps :
            LET weak == detect_confluence_signal(day.date, day.price, weak_map)
            IN  IsSome(weak) => FGe(confluence[1].strength, weak[1].strength)

\* C12 for events decided by at least one vote: the boost holds whenever
\* min_agreeing_indicators >= 1.
C12_AdxBoostWithVotes ==
    (Detected /\ StrongAdxDay /\ IsSome(confluence) /\ MinRequired >= 1
     /\ confluence_config.adx_strong_trend = F(25)) =>
        \A weak_map \in WeakAdxMaps :
            LET weak == detect_confluence_signal(day.date, day.price, weak_map)
            IN  /\ IsSome(weak)
                /\ FGe(confluence[1].strength, weak[1].strength)
                /\ FLe(confluence[1].strength, F(1))

----------------------------------------------------------------------------
(* Further properties of generate_signals and generate_signals_with_confluence *)

IndicatorMap == build_indicator_map(indicators)

PositionOf(date) == CHOOSE i \in DOMAIN IndexDates : IndexDates[i] = date

\* the indicator names a detector reads from the day's map
RequiredNames(signal_type) ==
    CASE DetectorRank(signal_type) = 1 -> {"RSI_14"}
      [] DetectorRank(signal_type) = 2 -> {"MACD_12_26", "MACD_SIGNAL_9"}
      [] DetectorRank(signal_type) = 3 -> {"BB_UPPER_20", "BB_LOWER_20", "BB_MIDDLE_20"}
      [] DetectorRank(signal_type) = 4 -> {"SMA_20", "SMA_50"}
      [] DetectorRank(signal_type) = 5 -> {"ADX_14"}
      [] DetectorRank(signal_type) = 6 -> {"STOCH_K_14", "STOCH_D_3"}
      [] DetectorRank(signal_type) = 7 -> {"WILLR_14"}
      [] DetectorRank(signal_type) = 8 -> {"CCI_20"}
      [] DetectorRank(signal_type) = 9 -> {"MFI_14"}

\* MACD, MA crossover and Stochastic read the same names from the previous map
NeedsPrevious(signal_type) == DetectorRank(signal_type) \in {2, 4, 6}

SignalTypes ==
    {"RsiOverbought", "RsiOversold", "MacdBullishCross", "MacdBearishCross",
     "BollingerUpperBreak", "BollingerLowerBreak", "MaCrossoverBullish",
     "MaCrossoverBearish", "AdxTrendStrong", "AdxTrendWeak", "StochBullishCross",
     "StochBearishCross", "WillrOverbought", "WillrOversold", "CciOverbought",
     "CciOversold", "MfiOverbought", "MfiOversold"}

\* the indicator names behind a vote of the given source
VoteNames(indicator_name) ==
    CASE indicator_name = "RSI_14" -> {"RSI_14"}
      [] indicator_name = "MACD" -> {"MACD_12_26", "MACD_SIGNAL_9"}
      [] indicator_name \in {"BB_LOWER", "BB_UPPER"} -> {"BB_UPPER_20", "BB_LOWER_20"}
      [] indicator_name = "STOCH_K" -> {"STOCH_K_14"}
      [] indicator_name = "CCI_20" -> {"CCI_20"}
      [] OTHER -> {"(not a source)"}

\* C13: abstention: every emitted Signal is of a known type on an index date
\* whose map holds all names its detector requires; a MACD, MA crossover or
\* Stochastic signal is never on the first index date and the previous index
\* date's map holds its names too; every vote of an emitted ConfluenceSignal
\* comes from a source whose names are in the date's map. Each call returns
\* a list (no error value exists in the signatures).
C13_Abstention ==
    /\ \A i \in DOMAIN signals :
          LET s == signals[i]
          IN  /\ s.signal_type \in SignalTypes
              /\ s.timestamp \in DOMAIN IndicatorMap
              /\ RequiredNames(s.signal_type) \subseteq DOMAIN IndicatorMap[s.timestamp]
              /\ NeedsPrevious(s.signal_type) =>
                    /\ PositionOf(s.timestamp) > 1
                    /\ RequiredNames(s.signal_type) \subseteq
                          DOMAIN IndicatorMap[IndexDates[PositionOf(s.timestamp) - 1]]
    /\ \A i \in DOMAIN confluence_signals :
          LET c == confluence_signals[i]
          IN  /\ c.date \in DOMAIN IndicatorMap
              /\ \A k \in DOMAIN c.contributing_indicators :
                    VoteNames(c.contributing_indicators[k].indicator_name)
                        \subseteq DOMAIN IndicatorMap[c.date]

\* MACD above its signal line on the first date and on a date whose previous
\* date lacks the signal line: no MACD signal; a later cross is reported
C13_Witness ==
    /\ Generated
    /\ Len(prices) > 0
    /\ Len(IndexDates) = 3
    /\ DOMAIN IndicatorMap[1] = {"MACD_12_26"}
    /\ IndicatorMap[2] = MapOf(<<<<"MACD_12_26", 3>>, <<"MACD_SIGNAL_9", 2>>>>, 2)
    /\ IndicatorMap[3] = MapOf(<<<<"MACD_12_26", 1>>, <<"MACD_SIGNAL_9", 2>>>>, 2)
    /\ ~Emitted("MacdBullishCross", 2)
    /\ Emitted("MacdBearishCross", 3)

\* C14: every Signal and every ConfluenceSignal the engine returns has id = 0
\* and an empty created_at, and every Signal has acknowledged = false.
C14_PlaceholderIdentity ==
    /\ \A i \in DOMAIN signals :
          /\ signals[i].id = 0
          /\ signals[i].created_at = ""
          /\ signals[i].acknowledged = FALSE
    /\ \A i \in DOMAIN confluence_signals :
          /\ confluence_signals[i].id = 0
          /\ confluence_signals[i].created_at = ""
    /\ IsSome(confluence) =>
          (confluence[1].id = 0 /\ confluence[1].created_at = "")

\* a run that returned signals of several detectors and a confluence event
C14_Witness ==
    /\ op = "generate_signals_with_confluence"
    /\ Len(signals) >= 3
    /\ Len(confluence_signals) >= 1
    /\ signals[1].id = 0
    /\ confluence_signals[1].created_at = ""

PriceMap == price_map_loop(prices, Len(prices))

\* the signals returned for one date, in the order returned
SignalsOn(date) == SelectSeq(signals, LAMBDA s : s.timestamp = date)

\* C15: the signals of the date at sorted position i are those the detectors
\* give when handed, as previous map, the index entry of the date at position
\* i - 1 (the preceding date present in the index, gaps skipped), and no
\* previous map at position 1.
C15_PreviousIndexDate ==
    (Generated /\ Len(prices) > 0) =>
        \A i \in DOMAIN IndexDates :
            SignalsOn(IndexDates[i]) =
                detect_all(IndexDates[i], price_on(PriceMap, IndexDates[i]),
                           IndicatorMap[IndexDates[i]],
                           IF i = 1 THEN None ELSE Some(IndicatorMap[IndexDates[i - 1]]))

\* dates 1 and 3 in the index, RSI 72 on both: the previous map of date 3 is
\* that of date 1, so only date 1 reports the crossing
C15_Witness ==
    /\ Generated
    /\ IndexDates = <<1, 3>>
    /\ IndicatorMap[1] = MapOf(<<<<"RSI_14", 72>>>>, 1)
    /\ IndicatorMap[3] = MapOf(<<<<"RSI_14", 72>>>>, 1)
    /\ Emitted("RsiOverbought", 1)
    /\ ~Emitted("RsiOverbought", 3)

\* the signals of the given type returned for the date
SignalsOfType(signal_type, date) ==
    SelectSeq(signals, LAMBDA s : s.signal_type = signal_type /\ s.timestamp = date)

\* C16: the Bollinger detector is a level test: on every index date whose map
\* has the three bands, BollingerUpperBreak (Bearish) is emitted exactly when
\* price > upper, BollingerLowerBreak (Bullish) exactly when price is not
\* above upper and price < lower, whatever the previous date holds; so the
\* signal repeats on consecutive dates while the price stays beyond the band.
C16_BollingerLevelTest ==
    (Generated /\ Len(prices) > 0) =>
        \A i \in DOMAIN IndexDates :
            LET date == IndexDates[i]
                today == IndicatorMap[date]
                price == price_on(PriceMap, date)
                upper_break == SignalsOfType("BollingerUpperBreak", date)
                lower_break == SignalsOfType("BollingerLowerBreak", date)
            IN  {"BB_UPPER_20", "BB_LOWER_20", "BB_MIDDLE_20"} \subseteq DOMAIN today =>
                  /\ Len(upper_break) = (IF FGt(price, today["BB_UPPER_20"]) THEN 1 ELSE 0)
                  /\ Len(lower_break) =
                        (IF ~FGt(price, today["BB_UPPER_20"]) /\ FLt(price, today["BB_LOWER_20"])
                         THEN 1 ELSE 0)
                  /\ \A k \in DOMAIN upper_break : upper_break[k].direction = "Bearish"
                  /\ \A k \in DOMAIN lower_break : lower_break[k].direction = "Bullish"

\* the close above the upper band on three consecutive dates: three signals
C16_Witness ==
    /\ Generated
    /\ Len(IndexDates) = 3
    /\ \A d \in 1..3 :
          /\ "BB_MIDDLE_20" \in DOMAIN IndicatorMap[d]
          /\ price_on(PriceMap, d) = F(115)
          /\ Emitted("BollingerUpperBreak", d)

----------------------------------------------------------------------------
(* Further properties of detect_confluence_signal *)

NonVotingNames == {"WILLR_14", "MFI_14", "SMA_20", "SMA_50", "STOCH_D_3", "BB_MIDDLE_20"}

\* the day's map with every non-voting name it holds set to the given value
Overwritten(inds, value) ==
    [k \in DOMAIN inds |-> IF k \in NonVotingNames THEN value ELSE inds[k]]

VoteSources == {"RSI_14", "MACD", "BB_LOWER", "BB_UPPER", "STOCH_K", "CCI_20"}

\* C17: the result of detect_confluence_signal is the same for the day's map,
\* for the map without WILLR_14, MFI_14, SMA_20, SMA_50, STOCH_D_3 and
\* BB_MIDDLE_20, and for the map with other values under these names; votes
\* come only from RSI_14, MACD, the bands, STOCH_K_14 and CCI_20.
C17_NonVotingNamesIgnored ==
    Detected =>
        /\ confluence =
              detect_confluence_signal(day.date, day.price,
                                       Without(day.indicators, NonVotingNames))
        /\ confluence =
              detect_confluence_signal(day.date, day.price,
                                       Overwritten(day.indicators, F(1)))
        /\ \A k \in DOMAIN DayVotes.votes :
              /\ DayVotes.votes[k].indicator_name \in VoteSources
              /\ VoteNames(DayVotes.votes[k].indicator_name) \subseteq DOMAIN day.indicators

\* the non-voting names recorded, the middle band off the midpoint: the band
\* vote still has the strength (90 - 85) / (100 - 90)
C17_Witness ==
    /\ Detected
    /\ NonVotingNames \subseteq DOMAIN day.indicators
    /\ day.indicators["BB_MIDDLE_20"] = F(95)
    /\ IsSome(confluence)
    /\ \E k \in DOMAIN confluence[1].contributing_indicators :
          /\ confluence[1].contributing_indicators[k].indicator_name = "BB_LOWER"
          /\ confluence[1].contributing_indicators[k].strength = Frac(1, 2)

----------------------------------------------------------------------------
(* Properties of generate_signals_with_confluence *)

WithConfluence == op = "generate_signals_with_confluence"

\* the close of the last bar given for the date; 0.0 if no bar has the date
ClosingPrice(date) ==
    LET I == {i \in DOMAIN prices : prices[i].date = date}
    IN  IF I = {} THEN F(0)
        ELSE prices[CHOOSE i \in I : \A j \in I : j <= i].close

\* C18: generate_signals_with_confluence returns as first list the list of
\* generate_signals on the same inputs; the second list holds at most one
\* ConfluenceSignal per date of the index, each the result of
\* detect_confluence_signal on that date's full map and close (0.0 where the
\* date has no bar); the second list may be out of date order.
C18_WithConfluenceLists ==
    WithConfluence =>
        /\ signals = generate_signals(indicators, prices)
        /\ \A i, j \in DOMAIN confluence_signals :
              confluence_signals[i].date = confluence_signals[j].date => i = j
        /\ \A i \in DOMAIN confluence_signals :
              LET c == confluence_signals[i]
              IN  /\ c.date \in DOMAIN IndicatorMap
                  /\ Some(c) = detect_confluence_signal(c.date, ClosingPrice(c.date),
                                                        IndicatorMap[c.date])

\* two events, the later date first, next to the individual signals
C18_Witness ==
    /\ WithConfluence
    /\ Len(confluence_signals) = 2
    /\ confluence_signals[1].date > confluence_signals[2].date
    /\ confluence_signals[1].price_at_signal = F(85)
    /\ Len(confluence_signals[1].contributing_indicators) = 5
    /\ signals = generate_signals(indicators, prices)

\* C19: generate_signals_with_confluence returns two empty lists whenever
\* the indicator list or the price list is empty.
C19_EmptyInputTwoEmptyLists ==
    (WithConfluence /\ (Len(indicators) = 0 \/ Len(prices) = 0)) =>
        (signals = <<>> /\ confluence_signals = <<>>)

\* C19 for the indicator list: with no indicator record both lists are empty,
\* whatever the price list holds.
C19_NoIndicatorsTwoEmptyLists ==
    (WithConfluence /\ Len(indicators) = 0) =>
        (signals = <<>> /\ confluence_signals = <<>>)

----------------------------------------------------------------------------
(* The crossing rule of the threshold detectors *)

\* C20: for RSI, ADX, Williams %R, CCI and MFI, on every index date: the
\* "over" signal is emitted iff today's value is strictly above the upper
\* threshold and the previous index date's value is absent or <= it; the
\* "under" signal iff today's value is not above the upper threshold, is
\* strictly below the lower threshold and the previous value is absent or
\* >= the lower threshold.
C20_CrossingRule ==
    (Generated /\ Len(prices) > 0) =>
        \A det \in ThresholdDetectors : \A i \in DOMAIN IndexDates :
            LET date == IndexDates[i]
                today == IndicatorMap[date]
                has == det.name \in DOMAIN today
                before == IndicatorMap[IndexDates[i - 1]][det.name]
                over == /\ has
                        /\ FGt(today[det.name], det.over)
                        /\ (NoPreviousValue(det.name, i) \/ FLe(before, det.over))
                under == /\ has
                         /\ ~FGt(today[det.name], det.over)
                         /\ FLt(today[det.name], det.under)
                         /\ (NoPreviousValue(det.name, i) \/ FGe(before, det.under))
            IN  /\ Emitted(det.over_type, date) <=> over
                /\ Emitted(det.under_type, date) <=> under

\* RSI 72, 74, 70, 72: reported on the first date, not while it stays above,
\* and again once it has come back to the threshold and crossed anew
C20_Witness ==
    /\ Generated
    /\ Len(indicators) = 4
    /\ \A i \in 1..4 : indicators[i].date = i /\ indicators[i].indicator_name = "RSI_14"
    /\ indicators[1].value = F(72)
    /\ indicators[2].value = F(74)
    /\ indicators[3].value = F(70)
    /\ indicators[4].value = F(72)
    /\ Emitted("RsiOverbought", 1)
    /\ ~Emitted("RsiOverbought", 2)
    /\ ~Emitted("RsiOverbought", 3)
    /\ Emitted("RsiOverbought", 4)

----------------------------------------------------------------------------
(* The record returned by detect_confluence_signal *)

VotesOf(c, direction) ==
    SelectSeq(c.contributing_indicators, LAMBDA v : v.direction = direction)

RECURSIVE StrengthSum(_, _)
StrengthSum(votes, k) ==
    IF k = 0 THEN F(0) ELSE FAdd(StrengthSum(votes, k - 1), votes[k].strength)

\* the mean strength of the votes in the emitted direction
BaseStrength(c) ==
    LET agreeing == VotesOf(c, c.direction)
    IN  FDiv(StrengthSum(agreeing, Len(agreeing)), F(Len(agreeing)))

\* C21: for every emitted ConfluenceSignal, with base the mean strength of
\* the votes in the emitted direction, strength = min(1, base * min(2, adx/25))
\* when adx_confidence is Some(adx) and strength = base when it is None; the
\* divisor is 25 whatever adx_strong_trend is configured.
C21_FinalStrength ==
    (Detected /\ IsSome(confluence)) =>
        LET c == confluence[1]
        IN  c.strength =
              (IF IsSome(c.adx_confidence)
               THEN FMin(F(1), FMul(BaseStrength(c),
                                    FMin(F(2), FDiv(c.adx_confidence[1], F(25)))))
               ELSE BaseStrength(c))

\* threshold 30, ADX 40, a single bullish RSI vote of strength 1/6 with
\* minimum 1: the strength is 1/6 * 40/25
C21_Witness ==
    /\ Detected
    /\ confluence_config.adx_strong_trend = F(30)
    /\ MinRequired = 1
    /\ IsSome(confluence)
    /\ confluence[1].adx_confidence = Some(F(40))
    /\ confluence[1].bullish_count = 1
    /\ BaseStrength(confluence[1]) = Frac(1, 6)
    /\ confluence[1].strength = Frac(4, 15)

\* the place of a vote's source in detect_confluence_signal
SourceRank(indicator_name) ==
    CASE indicator_name = "RSI_14" -> 1
      [] indicator_name = "MACD" -> 2
      [] indicator_name \in {"BB_LOWER", "BB_UPPER"} -> 3
      [] indicator_name = "STOCH_K" -> 4
      [] indicator_name = "CCI_20" -> 5
      [] OTHER -> 0

\* C29: in every ConfluenceSignal bullish_count is the number of Bullish
\* votes and bearish_count the number of Bearish votes of
\* contributing_indicators, their sum is the length of the list and at most
\* 5, the sources RSI, MACD, Bollinger, Stochastic %K, CCI appear at most once
\* and in this order, and no vote is Neutral.
C29_CountsMatchVotes ==
    (Detected /\ IsSome(confluence)) =>
        LET c == confluence[1]
            votes == c.contributing_indicators
        IN  /\ c.bullish_count = Len(VotesOf(c, "Bullish"))
            /\ c.bearish_count = Len(VotesOf(c, "Bearish"))
            /\ c.bullish_count + c.bearish_count = Len(votes)
            /\ Len(votes) <= 5
            /\ \A k \in DOMAIN votes :
                  /\ SourceRank(votes[k].indicator_name) \in 1..5
                  /\ votes[k].direction \in {"Bullish", "Bearish"}
            /\ \A j, k \in DOMAIN votes :
                  j < k => SourceRank(votes[j].indicator_name)
                             < SourceRank(votes[k].indicator_name)

\* all five sources vote, two Bullish and three Bearish
C29_Witness ==
    /\ Detected
    /\ IsSome(confluence)
    /\ Len(confluence[1].contributing_indicators) = 5
    /\ confluence[1].bullish_count = 2
    /\ confluence[1].bearish_count = 3
    /\ confluence[1].contributing_indicators[1].indicator_name = "RSI_14"
    /\ confluence[1].contributing_indicators[5].indicator_name = "CCI_20"

----------------------------------------------------------------------------
(* Directions, the Stochastic rule and prices of generate_signals *)

BearishTypes ==
    {"RsiOverbought", "WillrOverbought", "CciOverbought", "MfiOverbought",
     "BollingerUpperBreak", "MacdBearishCross", "MaCrossoverBearish", "StochBearishCross"}

BullishTypes ==
    {"RsiOversold", "WillrOversold", "CciOversold", "MfiOversold",
     "BollingerLowerBreak", "MacdBullishCross", "MaCrossoverBullish", "StochBullishCross"}

NeutralTypes == {"AdxTrendStrong", "AdxTrendWeak"}

\* C22: the direction of every emitted Signal is fixed by its SignalType:
\* Neutral for the two ADX types, Bearish for the overbought / upper break /
\* bearish cross types, Bullish for their opposites; no other pair occurs.
C22_DirectionByType ==
    \A i \in DOMAIN signals :
        \/ signals[i].signal_type \in NeutralTypes /\ signals[i].direction = "Neutral"
        \/ signals[i].signal_type \in BearishTypes /\ signals[i].direction = "Bearish"
        \/ signals[i].signal_type \in BullishTypes /\ signals[i].direction = "Bullish"

\* one run reporting a Neutral, a Bearish and a Bullish signal
C22_Witness ==
    /\ Generated
    /\ \E i, j, k \in DOMAIN signals :
          /\ signals[i].signal_type = "AdxTrendStrong" /\ signals[i].direction = "Neutral"
          /\ signals[j].signal_type = "RsiOverbought" /\ signals[j].direction = "Bearish"
          /\ signals[k].signal_type = "MacdBullishCross" /\ signals[k].direction = "Bullish"

\* C23: with STOCH_K_14 and STOCH_D_3 on today's and on the previous index
\* date's map, StochBullishCross is emitted iff prev_k <= prev_d, k > d and
\* k < stoch_oversold + 20 (40 by default); StochBearishCross iff
\* prev_k >= prev_d, k < d and k > stoch_overbought - 20 (60 by default); a
\* cross with k outside the band emits nothing; never both on one date.
C23_StochasticRule ==
    (Generated /\ Len(prices) > 0) =>
        /\ FAdd(config.stoch_oversold, F(20)) = F(40)
        /\ FSub(config.stoch_overbought, F(20)) = F(60)
        /\ \A i \in DOMAIN IndexDates :
              LET date == IndexDates[i]
                  today == IndicatorMap[date]
                  before == IndicatorMap[IndexDates[i - 1]]
                  names == {"STOCH_K_14", "STOCH_D_3"}
              IN  /\ ~(Emitted("StochBullishCross", date) /\ Emitted("StochBearishCross", date))
                  /\ (i > 1 /\ names \subseteq DOMAIN today /\ names \subseteq DOMAIN before) =>
                        LET k == today["STOCH_K_14"]
                            d == today["STOCH_D_3"]
                            prev_k == before["STOCH_K_14"]
                            prev_d == before["STOCH_D_3"]
                        IN  /\ Emitted("StochBullishCross", date) <=>
                                  (FLe(prev_k, prev_d) /\ FGt(k, d) /\ FLt(k, F(40)))
                            /\ Emitted("StochBearishCross", date) <=>
                                  (FGe(prev_k, prev_d) /\ FLt(k, d) /\ FGt(k, F(60)))

\* %K crosses above %D at 35 (reported), then falls back under %D at 30,
\* below the near-overbought band (nothing)
C23_Witness ==
    /\ Generated
    /\ Len(IndexDates) = 3
    /\ IndicatorMap[1] = MapOf(<<<<"STOCH_K_14", 30>>, <<"STOCH_D_3", 35>>>>, 2)
    /\ IndicatorMap[2] = MapOf(<<<<"STOCH_K_14", 35>>, <<"STOCH_D_3", 30>>>>, 2)
    /\ IndicatorMap[3] = MapOf(<<<<"STOCH_K_14", 30>>, <<"STOCH_D_3", 35>>>>, 2)
    /\ Emitted("StochBullishCross", 2)
    /\ ~Emitted("StochBearishCross", 3)

C28_WitnessNoBar ==
    /\ Generated
    /\ Len(prices) > 0
    /\ \E i \in DOMAIN signals :
          /\ \A k \in DOMAIN prices : prices[k].date # signals[i].timestamp
          /\ signals[i].signal_type = "BollingerLowerBreak"
          /\ signals[i].price_at_signal = F(0)

----------------------------------------------------------------------------
(* Properties of run_scheduler and execute_queued_trades *)

\* the trades the database created for one queue row
TradesFor(id) == {i \in DOMAIN portfolio_trades : portfolio_trades[i].queue_id = id}

\* the calls of execute_queued_trades whose snapshot held one queue row
CallsWith(id) == {i \in DOMAIN calls : id \in calls[i].ids}

\* C24: run_scheduler calls execute_queued_trades at most once per ET date:
\* no two calls carry the same date, once a pass is over last_execution_date
\* is its date, and no queue row is in two snapshots or gets two trades.
C24_OnePassPerDate ==
    /\ \A i, j \in DOMAIN calls : i # j => calls[i].today # calls[j].today
    /\ (pc = "loop" /\ calls # <<>>) =>
          /\ IsSome(last_execution_date)
          /\ last_execution_date[1] >= calls[Len(calls)].today
    /\ \A id \in DOMAIN trade_queue :
          /\ Cardinality(CallsWith(id)) <= 1
          /\ Cardinality(TradesFor(id)) <= 1

\* a pass ran at 9:30 of a date, and at 9:31 of the same date the loop is
\* about to check again with a trade waiting in the queue
C24_Witness ==
    /\ pc = "loop"
    /\ Len(calls) = 1
    /\ utc_to_et(calls[1].at).minute = 30
    /\ utc_to_et(now_utc).day = calls[1].today
    /\ utc_to_et(now_utc).hour = 9
    /\ utc_to_et(now_utc).minute = 31
    /\ last_execution_date = Some(calls[1].today)
    /\ count_queued_trades(trade_queue, "queued") > 0

\* C25: every call of execute_queued_trades was made from a check whose ET
\* time was a weekday, hour 9, minute 30 or 31, and which counted at least
\* one 'queued' row; the task leaves its loop in no other way.
C25_OnlyInWindowWithQueued ==
    /\ \A i \in DOMAIN calls :
          /\ InWindow(utc_to_et(calls[i].at))
          /\ calls[i].today = utc_to_et(calls[i].at).day
          /\ calls[i].queued_count > 0
    /\ pc # "loop" => calls # <<>>

\* a Saturday at 9:30 ET with a trade waiting: a pass ran on an earlier
\* weekday, and the loop only sleeps now
C25_Witness ==
    /\ pc = "loop"
    /\ calls # <<>>
    /\ weekday_of(utc_to_et(now_utc).day) = "Sat"
    /\ utc_to_et(now_utc).hour = 9
    /\ utc_to_et(now_utc).minute = 30
    /\ count_queued_trades(trade_queue, "queued") > 0
    /\ last_execution_date # Some(utc_to_et(now_utc).day)

\* C26: when a pass of execute_queued_trades is over, every row it marked
\* 'executing' is 'executed' or 'failed': between passes no row of the
\* queue is in status 'executing'.
C26_NoTradeLeftExecuting ==
    pc = "loop" =>
        \A id \in DOMAIN trade_queue : trade_queue[id].status # "executing"

\* C27: a row cancelled while its status was 'queued' keeps the status
\* 'cancelled', and the database creates no trade for it.
C27_CancelledNeverExecuted ==
    \A id \in cancelled :
        /\ trade_queue[id].status = "cancelled"
        /\ TradesFor(id) = {}

\* the second half of C27 alone: no trade is created for a cancelled row
C27_NoTradeForCancelled ==
    \A id \in cancelled : TradesFor(id) = {}

\* the rows added after a window check of their date had found the queue empty
Late == {id \in DOMAIN late_for : late_for[id] # 0}

C30_WitnessLaterDate ==
    \E id \in Late : \E i \in TradesFor(id) :
        /\ portfolio_trades[i].date > late_for[id]
        /\ trade_queue[id].status = "executed"

=============================================================================
